---- MODULE Spec2Model ----
(***************************************************************************)
(* Connection lifecycle of the MEXC futures SDK:                           *)
(*   - SessionManager (session.py): one lazily created httpx client, a     *)
(*     lock around its creation, a keep-alive task that pings and expires. *)
(*   - MexcFuturesWebSocket (websocket.py): connect / disconnect / login,  *)
(*     a ping task and a receive task per connection, auto-reconnect.      *)
(* Both run on one asyncio event loop: a step of the model is the code a   *)
(* coroutine runs between two suspension points (an await that can yield). *)
(* The configuration object is an input; it carries the attributes the two *)
(* classes read (max_idle_pings, auto_reconnect, ...).                     *)
(***************************************************************************)
EXTENDS Integers, Sequences, FiniteSets, TLC

\* ---------------------------------------------------------------- bounds
\* httpx clients the manager may construct in one run (handles 1..MaxHandles)
MaxHandles == 2
\* concurrent callers of get_client()
NumCallers == 2
\* config.max_idle_pings ranges over 0..MaxIdle
MaxIdle == 2
\* sockets the stream client may open in one run (sockets 1..MaxSockets)
MaxSockets == 2
\* nested _schedule_reconnect() calls, one per reconnect attempt of a receive task,
\* that fit under the interpreter's recursion limit (about 1000 frames, scaled down)
MaxAttempts == 2
\* callbacks the user may register in one run (registrations 1..MaxRegs)
MaxRegs == 2
\* the millisecond clock readings login() may see are 0..MaxClock
MaxClock == 12
\* distinct callback objects the caller of the registry holds
MaxCallbacks == 3

Callers == 1..NumCallers
Handles == 1..MaxHandles
\* None
NoHandle == 0
\* get_client() has not returned yet
NoRet == MaxHandles + 1

VARIABLES
    \* ---- SessionManager fields
    client,            \* self._client: a handle, or NoHandle for None
    ping_task,         \* self._ping_task is not None
    idle_ping_count,   \* self._idle_ping_count
    lock,              \* self._lock: the caller holding it, or 0
    max_idle_pings,    \* config.max_idle_pings
    \* ---- the httpx side
    created,           \* number of httpx.AsyncClient objects constructed
    closed,            \* handles whose is_closed is true
    \* ---- coroutines
    gpc,               \* get_client() of each caller: "idle" | "wait" | "warmup"
    ret,               \* what the caller's last get_client() returned
    retActive,         \* whether that handle was present and open when returned
    cpc,               \* close(): "idle" | "aclose"
    kpc,               \* _keepalive_loop task: "none" | "sleep" | "ping" | "aclose" | "done" | "cancelled"
    kclient,           \* the handle the keep-alive task's pending request is on
    \* ---- history of the current keep-alive task
    kpings,            \* successful pings (counted up to max_idle_pings + 1)
    knotified,         \* notify_activity() was called since the task started
    kfresh,            \* notify_activity() was called since the last ping completed
    gapMissed,         \* the task woke up after a ping with no notify_activity() in between
    kexpired,          \* the task took the idle-expiry branch
    kfailed,           \* a ping of the task failed
    \* ---- history of the current expiry cycle (reset by every teardown step)
    clean,             \* the caller's call was issued after the last teardown step
    cycleCreates,      \* _create_client() calls since the last teardown step
    cycleRets,         \* values returned to clean callers since the last teardown step
    overlap,           \* a call of this cycle was issued while another was pending
    \* ---- what the last step returned (empty after any other step)
    lastGet            \* [caller, warm_ok, raised, made, got] of the get_client() whose
                       \*    warm-up ended in the last step

smvars == <<client, ping_task, idle_ping_count, lock, max_idle_pings, created, closed,
            gpc, ret, retActive, cpc, kpc, kclient, kpings, knotified, kfresh,
            gapMissed, kexpired, kfailed, clean, cycleCreates, cycleRets, overlap,
            lastGet>>


\* ---- MexcFuturesWebSocket state
Sockets == 1..MaxSockets
\* None
NoSocket == 0

VARIABLES
    \* ---- MexcFuturesWebSocket fields (websocket.py:68-75)
    ws,                \* self._ws: a socket, or NoSocket for None
    is_connected,      \* self._is_connected
    is_logged_in,      \* self._is_logged_in
    should_reconnect,  \* self._should_reconnect
    ws_ping_task,      \* self._ping_task: the task created with that socket, or 0
    recv_task,         \* self._recv_task: the task created with that socket, or 0
    auto_reconnect,    \* config.auto_reconnect
    api_key,           \* config.api_key
    secret_key,        \* config.secret_key
    \* ---- the websockets side
    opened,            \* number of sockets websockets.connect() has returned
    sockState,         \* per socket: "none" | "open" | "peerclosed" | "closed"
    closeCode,         \* per socket: the close code the transport reported, or ""
    \* ---- coroutines; the tasks created by the n-th successful connect() are task n
    ppc,               \* _ping_loop task: "none" | "sleep" | "done" | "cancelled"
    rpc,               \* _receive_loop task: "none" | "recv" | "spin" | "resleep"
                       \*    | "reconnect" | "done" | "cancelled" | "crashed"
                       \*    | "dispatch" (awaiting a callback inside _emit)
                       \*    | "cbdisc" (inside a callback that awaits disconnect())
    rsock,             \* the socket the receive task's pending recv() is on
    upc,               \* the caller's connect(): "idle" | "connecting"
    dpc,               \* disconnect(): "idle" | "await_ping" | "await_recv" | "closing"
    drecv,             \* the receive task disconnect() listed when it was called
    \* ---- what the last step emitted and returned (empty after any other step)
    lastEmit,          \* events emitted in the last step: <<name, payload kind, payload>>
    lastCall,          \* [op, raised, sent, pre] of the connect()/login() that ended in the last step
    lastDispatch,      \* [msg, pre, post, emits] of the _handle_message() of the last step
    lastFrame,         \* [task, kind, caught, pre] of the frame recv() returned in the last step
    \* ---- history
    discEmits,         \* per receive task: `disconnected` events it emitted
    attempts,          \* per receive task: connect() attempts of its reconnect
    slept,             \* per receive task: completed reconnect_interval sleeps
    rok,               \* per receive task: its reconnect attempt succeeded
    discReturned,      \* disconnect() returned and the caller has not invoked connect() since
    loginSock          \* the socket whose successful rs.login set _is_logged_in, or NoSocket

wsvars == <<ws, is_connected, is_logged_in, should_reconnect, ws_ping_task, recv_task,
            auto_reconnect, api_key, secret_key, opened, sockState, closeCode, ppc, rpc, rsock, upc, dpc,
            drecv, lastEmit, lastCall, lastDispatch, lastFrame, discEmits, attempts, slept,
            rok, discReturned, loginSock>>

\* ---- event callbacks (websocket.py:77, :90-150)
Regs == 1..MaxRegs
\* the events of the pushed channels the callback model registers for
CbEvents == {"ticker", "deal"}
\* what a registered callback does when called: return, raise an Exception, or
\* return a coroutine that suspends and then returns or raises an Exception
CbKinds == {"ok", "raises", "async_ok", "async_raises"}

VARIABLES
    callbacks,         \* self._callbacks: per event the registrations, in list order
    cbKind,            \* per registration: what the callback does, or "none"
    registered,        \* number of registrations made
    eevent,            \* per receive task: the event its _emit() is delivering, or ""
    eidx,              \* per receive task: list index of the callback it awaits, or 0
    einv,              \* per receive task: registrations its _emit() has called so far
    lastRun            \* the _emit() that ended in the last step: [task, event, invoked, listed]

cbvars == <<callbacks, cbKind, registered, eevent, eidx, einv, lastRun>>

\* ---- the REST request layer, MexcFuturesClient (client.py:53-170)
VARIABLES
    rest_client,       \* self._client: "none" | "open" | "closed" (an httpx client of its own)
    qpc,               \* _request(): "idle" | "requesting"
    xpc,               \* MexcFuturesClient.close(): "idle" | "aclose"
    lastRequest        \* [done, ok, conn, notified] of the _request() that ended in the
                       \*    last step (NoRequest after any other step of the REST side)

restvars == <<rest_client, qpc, xpc, lastRequest>>

vars == <<smvars, wsvars, cbvars, restvars>>

\* ------------------------------------------------------- MexcFuturesClient
NoRequest == [done |-> FALSE, ok |-> FALSE, conn |-> "", notified |-> FALSE]

\* client.py:59-62
InitRest ==
    /\ rest_client = "none"
    /\ qpc = "idle"
    /\ xpc = "idle"
    /\ lastRequest = NoRequest

\* a step that is no step of the REST request layer
RestIdle ==
    /\ UNCHANGED <<rest_client, qpc, xpc>>
    /\ lastRequest' = NoRequest

\* where _request takes its connection from: "client = await self._get_client()"
\* (client.py:145), which constructs an httpx.AsyncClient of the REST client's own
\* when it has none or a closed one (client.py:93-100); "manager" would be a
\* connection obtained from SessionManager.get_client()
RequestConnection == "own"

\* whether _request calls SessionManager.notify_activity() after a response that
\* passed raise_for_status(): it returns the parsed data (client.py:162-165)
RequestNotifies == FALSE

\* session.py:40-43
is_active == client # NoHandle /\ client \notin closed

NoGet == [caller |-> 0, warm_ok |-> TRUE, raised |-> FALSE, made |-> NoHandle,
          got |-> NoHandle]

InitSM ==
    /\ client = NoHandle
    /\ ping_task = FALSE
    /\ idle_ping_count = 0
    /\ lock = 0
    /\ max_idle_pings \in 0..MaxIdle
    /\ created = 0
    /\ closed = {}
    /\ gpc = [p \in Callers |-> "idle"]
    /\ ret = [p \in Callers |-> NoRet]
    /\ retActive = [p \in Callers |-> FALSE]
    /\ cpc = "idle"
    /\ kpc = "none"
    /\ kclient = NoHandle
    /\ kpings = 0
    /\ knotified = FALSE
    /\ kfresh = FALSE
    /\ gapMissed = FALSE
    /\ kexpired = FALSE
    /\ kfailed = FALSE
    /\ clean = [p \in Callers |-> FALSE]
    /\ cycleCreates = 0
    /\ cycleRets = {}
    /\ overlap = FALSE
    /\ lastGet = NoGet

KHist == <<kpings, knotified, kfresh, gapMissed, kexpired, kfailed>>
CycleHist == <<clean, cycleCreates, cycleRets, overlap>>

\* a step of close() or of the keep-alive task's teardown starts a new cycle
NewCycle ==
    /\ clean' = [p \in Callers |-> FALSE]
    /\ cycleCreates' = 0
    /\ cycleRets' = {}
    /\ overlap' = FALSE

\* a cancelled task runs no further code of the loop body (session.py:162-163)
KLive == kpc \in {"sleep", "ping", "aclose"}

\* get_client() is called; it reaches "async with self._lock" (session.py:47)
get_client_call(p) ==
    /\ gpc[p] = "idle"
    /\ gpc' = [gpc EXCEPT ![p] = "wait"]
    /\ ret' = [ret EXCEPT ![p] = NoRet]
    /\ retActive' = [retActive EXCEPT ![p] = FALSE]
    /\ clean' = [clean EXCEPT ![p] = TRUE]
    /\ overlap' = (overlap \/ \E q \in Callers : q # p /\ clean[q] /\ gpc[q] # "idle")
    /\ UNCHANGED <<client, ping_task, idle_ping_count, lock, max_idle_pings, created,
                   closed, cpc, kpc, kclient, KHist, cycleCreates, cycleRets>>
    /\ lastGet' = NoGet
    /\ UNCHANGED <<wsvars, cbvars>>
    /\ RestIdle

\* asyncio.Lock of session.py:38, taken by "async with self._lock" (session.py:47)
LockFree == lock = 0

NeedsClient_always == TRUE

\* "if not self.is_active" (session.py:48)
NeedsClient == ~is_active

\* the lock is acquired. An active client is returned at once, without suspending;
\* otherwise the client is constructed and the warm-up request awaited (session.py:47-50)
get_client_acquire(p) ==
    /\ gpc[p] = "wait"
    /\ LockFree
    /\ IF ~NeedsClient
       THEN /\ gpc' = [gpc EXCEPT ![p] = "idle"]
            /\ ret' = [ret EXCEPT ![p] = client]
            /\ retActive' = [retActive EXCEPT ![p] = is_active]
            /\ cycleRets' = IF clean[p] THEN cycleRets \cup {client} ELSE cycleRets
            /\ UNCHANGED <<client, created, lock, cycleCreates>>
       ELSE /\ created < MaxHandles
            /\ created' = created + 1
            /\ client' = created + 1
            /\ lock' = p
            /\ gpc' = [gpc EXCEPT ![p] = "warmup"]
            /\ cycleCreates' = cycleCreates + 1
            /\ UNCHANGED <<ret, retActive, cycleRets>>
    /\ UNCHANGED <<ping_task, idle_ping_count, max_idle_pings, closed, cpc, kpc,
                   kclient, KHist, clean, overlap>>
    /\ lastGet' = NoGet
    /\ UNCHANGED <<wsvars, cbvars>>
    /\ RestIdle

WarmupRaises_uncaught(ok) == ~ok

\* "except Exception as exc: self._logger.warning(...)" (session.py:112-113): a
\* failed request, or a response raise_for_status() rejects, is logged
WarmupRaises(ok) == FALSE

\* the warm-up request of session.py:109-110 ends, well (ok) or not. An exception
\* leaving _warmup leaves get_client() through "async with", which releases the lock;
\* otherwise _start_keepalive() (session.py:119-122) runs, then "return self._client"
\* and the lock's release. While the caller holds the lock the client it constructed
\* is the last one constructed.
get_client_warmed(p, ok) ==
    /\ gpc[p] = "warmup"
    /\ lock' = 0
    /\ gpc' = [gpc EXCEPT ![p] = "idle"]
    /\ lastGet' = [caller |-> p, warm_ok |-> ok, raised |-> WarmupRaises(ok),
                   made |-> created,
                   got |-> IF WarmupRaises(ok) THEN NoHandle ELSE client]
    /\ IF WarmupRaises(ok)
       THEN UNCHANGED <<idle_ping_count, ping_task, kpc, kclient, KHist, ret, retActive,
                        cycleRets>>
       ELSE /\ idle_ping_count' = 0
            /\ ping_task' = TRUE
            /\ kpc' = "sleep"
            /\ kclient' = NoHandle
            /\ kpings' = 0
            /\ knotified' = FALSE
            /\ kfresh' = FALSE
            /\ gapMissed' = FALSE
            /\ kexpired' = FALSE
            /\ kfailed' = FALSE
            /\ ret' = [ret EXCEPT ![p] = client]
            /\ retActive' = [retActive EXCEPT ![p] = is_active]
            /\ cycleRets' = IF clean[p] THEN cycleRets \cup {client} ELSE cycleRets
    /\ UNCHANGED <<client, max_idle_pings, created, closed, cpc, clean, cycleCreates,
                   overlap>>
    /\ UNCHANGED <<wsvars, cbvars>>
    /\ RestIdle

notify_activity_noreset == idle_ping_count

\* session.py:56
notify_activity_reset == 0

\* session.py:54-56

notify_activity ==
    /\ idle_ping_count' = notify_activity_reset
    /\ knotified' = TRUE
    /\ kfresh' = TRUE
    /\ UNCHANGED <<client, ping_task, lock, max_idle_pings, created, closed, gpc, ret,
                   retActive, cpc, kpc, kclient, kpings, gapMissed, kexpired, kfailed,
                   CycleHist>>
    /\ lastGet' = NoGet
    /\ UNCHANGED <<wsvars, cbvars>>
    /\ RestIdle

\* close() up to "await self._client.aclose()" (session.py:58-62). httpx marks the
\* client closed when aclose() is entered and then awaits the transport's close.
close_call ==
    /\ cpc = "idle"
    /\ ping_task' = FALSE
    /\ kpc' = IF KLive THEN "cancelled" ELSE kpc
    /\ IF is_active
       THEN /\ closed' = closed \cup {client}
            /\ cpc' = "aclose"
            /\ UNCHANGED client
       ELSE /\ client' = NoHandle
            /\ UNCHANGED <<closed, cpc>>
    /\ NewCycle
    /\ UNCHANGED <<idle_ping_count, lock, max_idle_pings, created, gpc, ret, retActive,
                   kclient, KHist>>
    /\ lastGet' = NoGet
    /\ UNCHANGED <<wsvars, cbvars>>
    /\ RestIdle

\* aclose() returned: "self._client = None" (session.py:63)
close_done ==
    /\ cpc = "aclose"
    /\ client' = NoHandle
    /\ cpc' = "idle"
    /\ NewCycle
    /\ UNCHANGED <<ping_task, idle_ping_count, lock, max_idle_pings, created, closed,
                   gpc, ret, retActive, kpc, kclient, KHist>>
    /\ lastGet' = NoGet
    /\ UNCHANGED <<wsvars, cbvars>>
    /\ RestIdle

\* _close_client() up to its await (session.py:165-168), from the keep-alive task
close_client_begin ==
    /\ IF is_active
       THEN /\ closed' = closed \cup {client}
            /\ kpc' = "aclose"
            /\ UNCHANGED client
       ELSE /\ client' = NoHandle
            /\ kpc' = "done"
            /\ UNCHANGED closed
    /\ kclient' = NoHandle
    /\ NewCycle

IdleExpired_gt == idle_ping_count > max_idle_pings

IdleExpired_never == FALSE

\* session.py:135
IdleExpired == idle_ping_count >= max_idle_pings

\* asyncio.sleep(ping_interval) returned (session.py:133-149)
keepalive_wake ==
    /\ kpc = "sleep"
    /\ gapMissed' = (gapMissed \/ (kpings > 0 /\ ~kfresh))
    /\ IF IdleExpired
       THEN /\ close_client_begin
            /\ kexpired' = TRUE
       ELSE /\ IF is_active
               THEN /\ kpc' = "ping"
                    /\ kclient' = client
               ELSE /\ kpc' = "done"
                    /\ kclient' = NoHandle
            /\ UNCHANGED <<client, closed, kexpired, CycleHist>>
    /\ UNCHANGED <<ping_task, idle_ping_count, lock, max_idle_pings, created, gpc, ret,
                   retActive, cpc, kpings, knotified, kfresh, kfailed>>
    /\ lastGet' = NoGet
    /\ UNCHANGED <<wsvars, cbvars>>
    /\ RestIdle

PingSuccessCount_twice == idle_ping_count + 2

\* "self._idle_ping_count += 1" (session.py:151)
PingSuccessCount == idle_ping_count + 1

\* the ping succeeded (session.py:150-151)
keepalive_ping_ok ==
    /\ kpc = "ping"
    /\ kclient \notin closed
    /\ idle_ping_count' = PingSuccessCount
    /\ kpings' = IF kpings <= max_idle_pings THEN kpings + 1 ELSE kpings
    /\ kfresh' = FALSE
    /\ kpc' = "sleep"
    /\ kclient' = NoHandle
    /\ UNCHANGED <<client, ping_task, lock, max_idle_pings, created, closed, gpc, ret,
                   retActive, cpc, knotified, gapMissed, kexpired, kfailed, CycleHist>>
    /\ lastGet' = NoGet
    /\ UNCHANGED <<wsvars, cbvars>>
    /\ RestIdle

PingFailureRetries_again == TRUE

\* "except Exception as exc: ... await self._close_client(); return"
\* (session.py:157-160): the loop is left, the ping is not tried again
PingFailureRetries == FALSE

\* the ping failed (session.py:157-160)
keepalive_ping_fail ==
    /\ kpc = "ping"
    /\ IF PingFailureRetries
       THEN /\ kpc' = "sleep"
            /\ kclient' = NoHandle
            /\ UNCHANGED <<client, closed, CycleHist>>
       ELSE close_client_begin
    /\ kfailed' = TRUE
    /\ UNCHANGED <<ping_task, idle_ping_count, lock, max_idle_pings, created, gpc, ret,
                   retActive, cpc, kpings, knotified, kfresh, gapMissed, kexpired>>
    /\ lastGet' = NoGet
    /\ UNCHANGED <<wsvars, cbvars>>
    /\ RestIdle

\* aclose() returned in _close_client(): "self._client = None" (session.py:169)
keepalive_close_done ==
    /\ kpc = "aclose"
    /\ client' = NoHandle
    /\ kpc' = "done"
    /\ NewCycle
    /\ UNCHANGED <<ping_task, idle_ping_count, lock, max_idle_pings, created, closed,
                   gpc, ret, retActive, cpc, kclient, KHist>>
    /\ lastGet' = NoGet
    /\ UNCHANGED <<wsvars, cbvars>>
    /\ RestIdle

\* ---- MexcFuturesClient._request and close (client.py:91-170)
\* _request is called: _get_client() returns the stored client or constructs one,
\* then the request is awaited (client.py:145-160)
rest_request_call ==
    /\ qpc = "idle"
    /\ qpc' = "requesting"
    /\ rest_client' = "open"
    /\ lastRequest' = NoRequest
    /\ UNCHANGED xpc
    /\ UNCHANGED <<smvars, wsvars, cbvars>>

\* the response arrived and passed raise_for_status(): the data is returned
\* (client.py:161-165)
rest_request_ok ==
    /\ qpc = "requesting"
    /\ rest_client = "open"
    /\ qpc' = "idle"
    /\ lastRequest' = [done |-> TRUE, ok |-> TRUE, conn |-> RequestConnection,
                       notified |-> RequestNotifies]
    /\ UNCHANGED <<rest_client, xpc>>
    /\ UNCHANGED <<smvars, wsvars, cbvars>>

\* the request raised httpx.HTTPStatusError or httpx.RequestError: the parsed error
\* is raised to the caller (client.py:167-170)
rest_request_fail ==
    /\ qpc = "requesting"
    /\ qpc' = "idle"
    /\ lastRequest' = [done |-> TRUE, ok |-> FALSE, conn |-> RequestConnection,
                       notified |-> FALSE]
    /\ UNCHANGED <<rest_client, xpc>>
    /\ UNCHANGED <<smvars, wsvars, cbvars>>

\* MexcFuturesClient.close() up to "await self._client.aclose()" (client.py:102-105)
rest_close_call ==
    /\ xpc = "idle"
    /\ rest_client = "open"
    /\ rest_client' = "closed"
    /\ xpc' = "aclose"
    /\ lastRequest' = NoRequest
    /\ UNCHANGED qpc
    /\ UNCHANGED <<smvars, wsvars, cbvars>>

\* aclose() returned: "self._client = None" (client.py:106)
rest_close_done ==
    /\ xpc = "aclose"
    /\ rest_client' = "none"
    /\ xpc' = "idle"
    /\ lastRequest' = NoRequest
    /\ UNCHANGED qpc
    /\ UNCHANGED <<smvars, wsvars, cbvars>>

\* the REST client making requests, next to a session manager used directly
NextRest ==
    \/ rest_request_call
    \/ rest_request_ok
    \/ rest_request_fail
    \/ rest_close_call
    \/ rest_close_done
    \/ get_client_call(1)
    \/ get_client_acquire(1)
    \/ \E ok \in BOOLEAN : get_client_warmed(1, ok)
    \/ keepalive_wake
    \/ keepalive_ping_ok
    \/ keepalive_ping_fail
    \/ keepalive_close_done

NextSM ==
    \/ \E p \in Callers : get_client_call(p)
    \/ \E p \in Callers : get_client_acquire(p)
    \/ \E p \in Callers, ok \in BOOLEAN : get_client_warmed(p, ok)
    \/ notify_activity
    \/ close_call
    \/ close_done
    \/ keepalive_wake
    \/ keepalive_ping_ok
    \/ keepalive_ping_fail
    \/ keepalive_close_done

\* ================================================= MexcFuturesWebSocket
Flags == <<is_connected, is_logged_in, should_reconnect>>

\* ---- messages: an envelope is <<channel, data>>; data is <<kind, type, value>>
\* JSON values a server reply may carry as "data"
DataVals ==
    { <<"str", "success", "">>, <<"str", "fail", "">>,
      <<"dict", "int", "0">>, <<"dict", "int", "1">>, <<"dict", "float", "0.0">>,
      <<"dict", "bool", "false">>, <<"dict", "str", "0">>, <<"dict", "absent", "">>,
      <<"null", "", "">>, <<"int", "0", "">> }

\* constants.py:105-128 and websocket.py:341-360
channel_map ==
    [c \in { "push.tickers", "push.ticker", "push.deal", "push.depth", "push.kline",
             "push.funding.rate", "push.index.price", "push.fair.price",
             "push.personal.order", "push.personal.order.deal",
             "push.personal.position", "push.personal.asset",
             "push.personal.stop.order", "push.personal.stop.planorder",
             "push.personal.liquidate.risk", "push.personal.adl.level",
             "push.personal.risk.limit", "push.personal.plan.order" } |->
        CASE c = "push.tickers" -> "tickers"
          [] c = "push.ticker" -> "ticker"
          [] c = "push.deal" -> "deal"
          [] c = "push.depth" -> "depth"
          [] c = "push.kline" -> "kline"
          [] c = "push.funding.rate" -> "funding_rate"
          [] c = "push.index.price" -> "index_price"
          [] c = "push.fair.price" -> "fair_price"
          [] c = "push.personal.order" -> "order_update"
          [] c = "push.personal.order.deal" -> "order_deal"
          [] c = "push.personal.position" -> "position_update"
          [] c = "push.personal.asset" -> "asset_update"
          [] c = "push.personal.stop.order" -> "stop_order"
          [] c = "push.personal.stop.planorder" -> "stop_plan_order"
          [] c = "push.personal.liquidate.risk" -> "liquidate_risk"
          [] c = "push.personal.adl.level" -> "adl_level"
          [] c = "push.personal.risk.limit" -> "risk_limit"
          [] c = "push.personal.plan.order" -> "plan_order" ]

ControlChannels == {"pong", "rs.login", "rs.personal.filter", "rs.error"}

\* channels for which channel.startswith("rs.sub.") holds (websocket.py:308)
SubChannels == {"rs.sub.ticker", "rs.sub.rs.sub.depth"}
\* channels for which channel.startswith("rs.unsub.") holds (websocket.py:315)
UnsubChannels == {"rs.unsub.ticker"}

RECURSIVE StrRemove(_, _)
\* s.replace(old, ""): str.replace scans s from the left and drops every
\* non-overlapping occurrence of old
StrRemove(s, old) ==
    IF Len(s) < Len(old) THEN s
    ELSE IF SubSeq(s, 1, Len(old)) = old
         THEN StrRemove(SubSeq(s, Len(old) + 1, Len(s)), old)
         ELSE SubSeq(s, 1, 1) \o StrRemove(SubSeq(s, 2, Len(s)), old)

\* channel.replace("rs.sub.", "") and channel.replace("rs.unsub.", "")
\* (websocket.py:309, :316)
stream_type ==
    [c \in SubChannels \cup UnsubChannels |->
        IF c \in SubChannels THEN StrRemove(c, "rs.sub.") ELSE StrRemove(c, "rs.unsub.")]

\* a channel that is the empty string or absent: message.get("channel") is falsy
NoChannel == ""

Channels ==
    ControlChannels \cup SubChannels \cup UnsubChannels \cup DOMAIN channel_map
        \cup {"push.unknown", NoChannel}

Msgs == Channels \X DataVals

\* Python's "x == 0" on a JSON value of the given type: True == 1 and False == 0
PyEqZero(type, value) ==
    \/ type = "int" /\ value = "0"
    \/ type = "float" /\ value = "0.0"
    \/ type = "bool" /\ value = "false"

\* data == "success" or (isinstance(data, dict) and data.get("code") == 0)
\* (websocket.py:287, :300)
IsSuccess(data) ==
    \/ data = <<"str", "success", "">>
    \/ data[1] = "dict" /\ PyEqZero(data[2], data[3])

handle_data_update_generic(m) == << <<"message", "envelope", m>> >>

\* _handle_data_update (websocket.py:331-367)
handle_data_update(m) ==
    IF m[1] \in DOMAIN channel_map
    THEN << <<channel_map[m[1]], "data", m[2]>> >>
    ELSE << <<"message", "envelope", m>> >>

\* the events _handle_message emits for an envelope (websocket.py:271-329)
HandleEmits(m) ==
    CASE m[1] = "pong" -> << <<"pong", "data", m[2]>> >>
      [] m[1] = "rs.login" ->
            IF IsSuccess(m[2]) THEN << <<"login", "envelope", m>> >>
                               ELSE << <<"login_failed", "data", m[2]>> >>
      [] m[1] = "rs.personal.filter" ->
            IF IsSuccess(m[2]) THEN << <<"filter_set", "data", m[2]>> >>
                               ELSE << <<"filter_failed", "data", m[2]>> >>
      [] m[1] \in SubChannels ->
            << <<"subscribed", "typed", <<stream_type[m[1]], m[2]>> >> >>
      [] m[1] \in UnsubChannels ->
            << <<"unsubscribed", "typed", <<stream_type[m[1]], m[2]>> >> >>
      [] m[1] = "rs.error" -> << <<"error", "exception", m[2]>> >>
      [] OTHER -> handle_data_update(m)

\* self._is_logged_in after _handle_message (websocket.py:285-295)
HandleLoggedIn(m, li) ==
    IF m[1] = "rs.login" THEN IsSuccess(m[2]) ELSE li

\* the socket that delivered the rs.login reply which last set _is_logged_in
HandleLoginSock(m, sock, ls) ==
    IF m[1] = "rs.login" THEN (IF IsSuccess(m[2]) THEN sock ELSE NoSocket) ELSE ls

NoCall == [op |-> "none", raised |-> "none", sent |-> NoSocket,
           pre |-> <<FALSE, FALSE, FALSE>>]

NoDispatch == [msg |-> <<"", <<"null", "", "">> >>, pre |-> FALSE, post |-> FALSE,
               emits |-> << >>]

\* credentials a configuration may carry
ApiKeys == {"k", "k1"}
SecretKeys == {"s", "s2"}

\* the configuration of the specifications that do not look at the login message
FixedKeys == api_key = "k" /\ secret_key = "s"

NoFrame == [task |-> 0, kind |-> "", caught |-> "none", pre |-> FALSE]

\* websocket.py:59-78
InitWS ==
    /\ ws = NoSocket
    /\ is_connected = FALSE
    /\ is_logged_in = FALSE
    /\ auto_reconnect \in BOOLEAN
    /\ should_reconnect = auto_reconnect
    /\ api_key \in ApiKeys
    /\ secret_key \in SecretKeys
    /\ ws_ping_task = 0
    /\ recv_task = 0
    /\ opened = 0
    /\ sockState = [s \in Sockets |-> "none"]
    /\ closeCode = [s \in Sockets |-> ""]
    /\ ppc = [t \in Sockets |-> "none"]
    /\ rpc = [t \in Sockets |-> "none"]
    /\ rsock = [t \in Sockets |-> NoSocket]
    /\ upc = "idle"
    /\ dpc = "idle"
    /\ drecv = 0
    /\ lastEmit = << >>
    /\ lastCall = NoCall
    /\ lastDispatch = NoDispatch
    /\ lastFrame = NoFrame
    /\ discEmits = [t \in Sockets |-> 0]
    /\ attempts = [t \in Sockets |-> 0]
    /\ slept = [t \in Sockets |-> 0]
    /\ rok = [t \in Sockets |-> FALSE]
    /\ discReturned = FALSE
    /\ loginSock = NoSocket

NoRun == [task |-> 0, event |-> "", invoked |-> << >>, listed |-> << >>]

\* "self._callbacks: dict[str, list[EventCallback]] = {}" (websocket.py:77)
InitCB ==
    /\ callbacks = [e \in CbEvents |-> << >>]
    /\ cbKind = [r \in Regs |-> "none"]
    /\ registered = 0
    /\ eevent = [t \in Sockets |-> ""]
    /\ eidx = [t \in Sockets |-> 0]
    /\ einv = [t \in Sockets |-> << >>]
    /\ lastRun = NoRun

\* a step that registers nothing and is no step of an _emit() with callbacks
CbIdle ==
    /\ UNCHANGED <<callbacks, cbKind, registered, eevent, eidx, einv>>
    /\ lastRun' = NoRun

Init == InitSM /\ InitWS /\ InitCB /\ InitRest

PLive(t) == t # 0 /\ ppc[t] = "sleep"
RLive(t) == t # 0 /\ rpc[t] \in {"recv", "spin", "resleep", "reconnect", "dispatch"}

WsHist == <<discEmits, attempts, slept, rok>>

ConnectReconnectFlag_restored == auto_reconnect

\* connect() assigns _ws, _is_connected, _ping_task and _recv_task and nothing else
\* (websocket.py:157-166): _should_reconnect keeps its value
ConnectReconnectFlag == should_reconnect

\* the body of connect() after websockets.connect() returned socket s
\* (websocket.py:157-168): the new tasks run to their first await
ConnectBody(s) ==
    /\ opened' = s
    /\ sockState' = [sockState EXCEPT ![s] = "open"]
    /\ ws' = s
    /\ is_connected' = TRUE
    /\ should_reconnect' = ConnectReconnectFlag
    /\ ws_ping_task' = s
    /\ recv_task' = s
    /\ ppc' = [ppc EXCEPT ![s] = "sleep"]
    /\ rsock' = [rsock EXCEPT ![s] = s]
    /\ lastEmit' = << <<"connected", "none", "">> >>

\* connect() is called by the user and awaits websockets.connect() (websocket.py:152-160)
connect_call ==
    /\ upc = "idle"
    /\ upc' = "connecting"
    /\ discReturned' = FALSE
    /\ UNCHANGED <<smvars, restvars, api_key, secret_key, ws, Flags, ws_ping_task, recv_task, auto_reconnect, opened,
                   sockState, closeCode, ppc, rpc, rsock, dpc, drecv, WsHist>>
    /\ lastEmit' = << >>
    /\ lastCall' = NoCall
    /\ lastDispatch' = NoDispatch
    /\ lastFrame' = NoFrame
    /\ UNCHANGED loginSock
    /\ CbIdle

\* websockets.connect() returned a socket to the user's connect()
connect_ok ==
    /\ upc = "connecting"
    /\ opened < MaxSockets
    /\ ConnectBody(opened + 1)
    /\ rpc' = [rpc EXCEPT ![opened + 1] = "recv"]
    /\ upc' = "idle"
    /\ lastCall' = [op |-> "connect", raised |-> "none", sent |-> NoSocket,
                    pre |-> Flags]
    /\ UNCHANGED <<smvars, restvars, api_key, secret_key, is_logged_in, auto_reconnect, closeCode,
                   dpc, drecv, WsHist, discReturned>>
    /\ lastDispatch' = NoDispatch
    /\ lastFrame' = NoFrame
    /\ UNCHANGED loginSock
    /\ CbIdle

ConnectFailure_swallowed == "none"

\* "raise MexcWebSocketError(f"Failed to connect: {e}", e) from e" (websocket.py:172)
ConnectFailure == "MexcWebSocketError"

\* websockets.connect() raised: connect() raises MexcWebSocketError (websocket.py:170-172)
connect_fail ==
    /\ upc = "connecting"
    /\ upc' = "idle"
    /\ lastCall' = [op |-> "connect", raised |-> ConnectFailure, sent |-> NoSocket,
                    pre |-> Flags]
    /\ UNCHANGED <<smvars, restvars, api_key, secret_key, ws, Flags, ws_ping_task, recv_task, auto_reconnect, opened,
                   sockState, closeCode, ppc, rpc, rsock, dpc, drecv, WsHist, discReturned>>
    /\ lastEmit' = << >>
    /\ lastDispatch' = NoDispatch
    /\ lastFrame' = NoFrame
    /\ UNCHANGED loginSock
    /\ CbIdle

\* close codes of RFC 6455 that websockets reports in ConnectionClosed
AbnormalClosure == "1006"
NormalClosure == "1000"

\* the transport of an open socket closes abruptly (the peer, the network)
peer_close(s) ==
    /\ sockState[s] = "open"
    /\ sockState' = [sockState EXCEPT ![s] = "peerclosed"]
    /\ closeCode' = [closeCode EXCEPT ![s] = AbnormalClosure]
    /\ UNCHANGED <<smvars, restvars, api_key, secret_key, ws, Flags, ws_ping_task, recv_task, auto_reconnect, opened,
                   ppc, rpc, rsock, upc, dpc, drecv, WsHist, discReturned>>
    /\ lastEmit' = << >>
    /\ lastCall' = NoCall
    /\ lastDispatch' = NoDispatch
    /\ lastFrame' = NoFrame
    /\ UNCHANGED loginSock
    /\ CbIdle

\* "while self._is_connected and self._ws" (websocket.py:234), then recv(): a socket
\* another task is receiving on raises at once, the error is emitted and the loop goes on
RecvLoopNext(t, conn, sock) ==
    IF conn /\ sock # NoSocket
    THEN IF \E u \in Sockets : u # t /\ rpc[u] = "recv" /\ rsock[u] = sock
         THEN "spin"
         ELSE "recv"
    ELSE "done"

\* recv() returned a frame that parses to the envelope m (websocket.py:236-239)
recv_msg(t, m) ==
    /\ rpc[t] = "recv"
    /\ sockState[rsock[t]] = "open"
    /\ lastFrame' = [task |-> t, kind |-> "object", caught |-> "none", pre |-> is_connected]
    /\ is_logged_in' = HandleLoggedIn(m, is_logged_in)
    /\ lastEmit' = HandleEmits(m)
    /\ lastDispatch' = [msg |-> m, pre |-> is_logged_in,
                        post |-> HandleLoggedIn(m, is_logged_in), emits |-> HandleEmits(m)]
    /\ loginSock' = HandleLoginSock(m, rsock[t], loginSock)
    /\ rpc' = [rpc EXCEPT ![t] = RecvLoopNext(t, is_connected, ws)]
    /\ rsock' = [rsock EXCEPT ![t] = IF RecvLoopNext(t, is_connected, ws) = "recv"
                                     THEN ws ELSE NoSocket]
    /\ UNCHANGED <<smvars, restvars, api_key, secret_key, ws, is_connected, should_reconnect, ws_ping_task, recv_task,
                   auto_reconnect, opened, sockState, closeCode, ppc, upc, dpc, drecv, WsHist, discReturned>>
    /\ lastCall' = NoCall
    /\ CbIdle

\* frames recv() may return that do not reach the dispatch: a text frame that is
\* not JSON, a binary frame whose bytes are not UTF-8, a JSON text nested deeper than
\* the interpreter's recursion limit, and a JSON text whose value is not an object
BadFrames == {"malformed", "binary", "nested", "array"}

\* what "data = json.loads(message)" raises for a frame (websocket.py:237):
\* json.JSONDecodeError for text that is not JSON; UnicodeDecodeError, a ValueError,
\* when the bytes cannot be decoded; RecursionError from the recursive decoder
ParseError(kind) ==
    CASE kind = "malformed" -> "JSONDecodeError"
      [] kind = "binary" -> "UnicodeDecodeError"
      [] kind = "nested" -> "RecursionError"
      [] OTHER -> "none"

\* the exception the receive loop catches for a frame: the parse error, or the
\* AttributeError of message.get("channel") on a value that is not a dict
\* (websocket.py:239, :277)
FrameError(kind) ==
    IF ParseError(kind) # "none" THEN ParseError(kind)
    ELSE IF kind = "array" THEN "AttributeError" ELSE "none"

\* "except json.JSONDecodeError" logs; "except Exception" logs and emits `error`
\* (websocket.py:253-257)
FrameErrorEmits(e) ==
    IF e = "JSONDecodeError" THEN << >> ELSE << <<"error", "exception", e>> >>

\* recv() returned a frame the loop cannot dispatch (websocket.py:236-239, :253-257)
recv_frame(t, kind) ==
    /\ rpc[t] = "recv"
    /\ sockState[rsock[t]] = "open"
    /\ lastFrame' = [task |-> t, kind |-> kind, caught |-> FrameError(kind),
                     pre |-> is_connected]
    /\ lastEmit' = FrameErrorEmits(FrameError(kind))
    /\ rpc' = [rpc EXCEPT ![t] = RecvLoopNext(t, is_connected, ws)]
    /\ rsock' = [rsock EXCEPT ![t] = IF RecvLoopNext(t, is_connected, ws) = "recv"
                                     THEN ws ELSE NoSocket]
    /\ UNCHANGED <<smvars, restvars, api_key, secret_key, ws, Flags, ws_ping_task, recv_task, auto_reconnect, opened,
                   sockState, closeCode, ppc, upc, dpc, drecv, WsHist, discReturned,
                   loginSock>>
    /\ lastCall' = NoCall
    /\ lastDispatch' = NoDispatch
    /\ CbIdle

\* a task whose recv() raised ConcurrencyError tries again (websocket.py:255-257, :234)
recv_spin(t) ==
    /\ rpc[t] = "spin"
    /\ lastEmit' = << <<"error", "exception", "ConcurrencyError">> >>
    /\ rpc' = [rpc EXCEPT ![t] = RecvLoopNext(t, is_connected, ws)]
    /\ rsock' = [rsock EXCEPT ![t] = IF RecvLoopNext(t, is_connected, ws) = "recv"
                                     THEN ws ELSE NoSocket]
    /\ UNCHANGED <<smvars, restvars, api_key, secret_key, ws, Flags, ws_ping_task, recv_task, auto_reconnect, opened,
                   sockState, closeCode, ppc, upc, dpc, drecv, WsHist, discReturned>>
    /\ lastCall' = NoCall
    /\ lastDispatch' = NoDispatch
    /\ lastFrame' = NoFrame
    /\ UNCHANGED loginSock
    /\ CbIdle

ReconnectWanted_never == FALSE

ReconnectWanted_always == TRUE

\* "if self._should_reconnect" (websocket.py:247)
ReconnectWanted == should_reconnect

ClosureLoggedIn_kept == is_logged_in

\* "self._is_logged_in = False" in the ConnectionClosed handler (websocket.py:244)
ClosureLoggedIn == FALSE

\* recv() raised ConnectionClosed (websocket.py:241-249)
recv_closed(t) ==
    /\ rpc[t] = "recv"
    /\ sockState[rsock[t]] # "open"
    /\ is_connected' = FALSE
    /\ is_logged_in' = ClosureLoggedIn
    /\ loginSock' = NoSocket
    /\ lastEmit' = << <<"disconnected", "code", closeCode[rsock[t]]>> >>
    /\ discEmits' = [discEmits EXCEPT ![t] = @ + 1]
    /\ rpc' = [rpc EXCEPT ![t] = IF ReconnectWanted THEN "resleep" ELSE "done"]
    /\ rsock' = [rsock EXCEPT ![t] = NoSocket]
    /\ UNCHANGED <<smvars, restvars, api_key, secret_key, ws, should_reconnect, ws_ping_task, recv_task, auto_reconnect,
                   opened, sockState, closeCode, ppc, upc, dpc, drecv, attempts, slept, rok, discReturned>>
    /\ lastCall' = NoCall
    /\ lastDispatch' = NoDispatch
    /\ lastFrame' = NoFrame
    /\ CbIdle

\* asyncio.sleep(reconnect_interval) returned; connect() is called (websocket.py:262-265)
reconnect_wake(t) ==
    /\ rpc[t] = "resleep"
    /\ slept' = [slept EXCEPT ![t] = @ + 1]
    /\ attempts' = [attempts EXCEPT ![t] = @ + 1]
    /\ rpc' = [rpc EXCEPT ![t] = "reconnect"]
    /\ UNCHANGED <<smvars, restvars, api_key, secret_key, ws, Flags, ws_ping_task, recv_task, auto_reconnect, opened,
                   sockState, closeCode, ppc, rsock, upc, dpc, drecv, discEmits, rok, discReturned>>
    /\ lastEmit' = << >>
    /\ lastCall' = NoCall
    /\ lastDispatch' = NoDispatch
    /\ lastFrame' = NoFrame
    /\ UNCHANGED loginSock
    /\ CbIdle

\* the reconnect's connect() succeeded; the old receive task ends (websocket.py:265, :249)
reconnect_ok(t) ==
    /\ rpc[t] = "reconnect"
    /\ opened < MaxSockets
    /\ ConnectBody(opened + 1)
    /\ rpc' = [rpc EXCEPT ![t] = "done", ![opened + 1] = "recv"]
    /\ rok' = [rok EXCEPT ![t] = TRUE]
    /\ UNCHANGED <<smvars, restvars, api_key, secret_key, is_logged_in, auto_reconnect, closeCode,
                   upc, dpc, drecv, discEmits, attempts,
                   slept, discReturned>>
    /\ lastCall' = NoCall
    /\ lastDispatch' = NoDispatch
    /\ lastFrame' = NoFrame
    /\ UNCHANGED loginSock
    /\ CbIdle

AfterFailedReconnect_giveup == "done"

\* "if self._should_reconnect: await self._schedule_reconnect()" (websocket.py:266-269)
AfterFailedReconnect == IF should_reconnect THEN "resleep" ELSE "done"

\* every failed attempt awaits _schedule_reconnect() from inside the previous call
\* (websocket.py:269), one more suspended frame each time: the call that would
\* exceed the interpreter's recursion limit raises RecursionError instead
StackExhausted(t) == attempts[t] >= MaxAttempts

\* the reconnect's connect() raised (websocket.py:266-269); a RecursionError raised
\* in the handler leaves every enclosing call and ends the receive task
reconnect_fail(t) ==
    /\ rpc[t] = "reconnect"
    /\ rpc' = [rpc EXCEPT ![t] = IF should_reconnect /\ StackExhausted(t)
                                  THEN "crashed" ELSE AfterFailedReconnect]
    /\ UNCHANGED <<smvars, restvars, api_key, secret_key, ws, Flags, ws_ping_task, recv_task, auto_reconnect, opened,
                   sockState, closeCode, ppc, rsock, upc, dpc, drecv, WsHist, discReturned>>
    /\ lastEmit' = << >>
    /\ lastCall' = NoCall
    /\ lastDispatch' = NoDispatch
    /\ lastFrame' = NoFrame
    /\ UNCHANGED loginSock
    /\ CbIdle

\* "await self._ws.send(msg_str)" (websocket.py:217) raises ConnectionClosed when
\* _send gets that far and the stored socket's transport is no longer open
SendRaises == ws # NoSocket /\ is_connected /\ sockState[ws] # "open"

PingErrorMarksDead_yes == TRUE

\* "except Exception as e: self.logger.error(f"Ping error: {e}")" (websocket.py:229-230):
\* the handler assigns nothing
PingErrorMarksDead == FALSE

\* asyncio.sleep(ping_interval) returned in _ping_loop (websocket.py:221-230); the
\* ping is sent by _send on the stored socket, a failed send is logged, and the loop
\* condition is evaluated again. A ping whose send raised is observed in lastCall.
ping_wake(t) ==
    /\ ppc[t] = "sleep"
    /\ is_connected' = IF SendRaises /\ PingErrorMarksDead THEN FALSE ELSE is_connected
    /\ ppc' = [ppc EXCEPT ![t] = IF is_connected' THEN "sleep" ELSE "done"]
    /\ lastCall' = IF SendRaises
                   THEN [op |-> "ping", raised |-> "ConnectionClosed", sent |-> NoSocket,
                         pre |-> Flags]
                   ELSE NoCall
    /\ UNCHANGED <<smvars, restvars, api_key, secret_key, ws, is_logged_in, should_reconnect, ws_ping_task, recv_task,
                   auto_reconnect, opened, sockState, closeCode, rpc, rsock, upc, dpc,
                   drecv, WsHist, discReturned>>
    /\ lastEmit' = << >>
    /\ lastDispatch' = NoDispatch
    /\ lastFrame' = NoFrame
    /\ UNCHANGED loginSock
    /\ CbIdle

\* ---- disconnect() (websocket.py:174-194)
\* "self._is_connected = False; self._is_logged_in = False" and the return
DisconnectFinish ==
    /\ is_connected' = FALSE
    /\ is_logged_in' = FALSE
    /\ loginSock' = NoSocket
    /\ dpc' = "idle"
    /\ discReturned' = TRUE
    /\ lastCall' = [op |-> "disconnect", raised |-> "none", sent |-> NoSocket,
                    pre |-> Flags, again |-> discReturned]

\* "if self._ws: await self._ws.close()" (websocket.py:189-190)
DisconnectCloseWs ==
    IF ws # NoSocket
    THEN /\ sockState' = [sockState EXCEPT ![ws] = IF @ = "open" THEN "closed" ELSE @]
         /\ closeCode' = [closeCode EXCEPT ![ws] = IF sockState[ws] = "open"
                                                   THEN NormalClosure ELSE @]
         /\ dpc' = "closing"
         /\ lastCall' = NoCall
         /\ UNCHANGED <<ws, is_connected, is_logged_in, discReturned, loginSock>>
    ELSE /\ DisconnectFinish
         /\ UNCHANGED <<ws, sockState, closeCode>>

\* the receive task of the list is cancelled and awaited, if it is not done
DisconnectCancelRecv(r) ==
    IF RLive(r)
    THEN /\ rpc' = [rpc EXCEPT ![r] = "cancelled"]
         /\ rsock' = [rsock EXCEPT ![r] = NoSocket]
         /\ dpc' = "await_recv"
         /\ lastCall' = NoCall
         /\ UNCHANGED <<ws, is_connected, is_logged_in, sockState, closeCode, discReturned,
                        loginSock>>
    ELSE /\ UNCHANGED <<rpc, rsock>>
         /\ DisconnectCloseWs

DisconnectReconnectFlag_toggle == ~should_reconnect

\* "self._should_reconnect = False" (websocket.py:177)
DisconnectReconnectFlag == FALSE

\* disconnect() is called: auto-reconnect off, the task list is taken, the ping task
\* is cancelled and awaited if it is not done (websocket.py:177-186)
disconnect_call ==
    /\ dpc = "idle"
    /\ should_reconnect' = DisconnectReconnectFlag
    /\ drecv' = recv_task
    /\ IF PLive(ws_ping_task)
       THEN /\ ppc' = [ppc EXCEPT ![ws_ping_task] = "cancelled"]
            /\ dpc' = "await_ping"
            /\ lastCall' = NoCall
            /\ UNCHANGED <<ws, is_connected, is_logged_in, sockState, closeCode, rpc,
                           rsock, discReturned, loginSock>>
       ELSE /\ UNCHANGED ppc
            /\ DisconnectCancelRecv(recv_task)
    /\ UNCHANGED <<smvars, restvars, api_key, secret_key, ws_ping_task, recv_task, auto_reconnect, opened,
                   upc, WsHist>>
    /\ lastEmit' = << >>
    /\ lastDispatch' = NoDispatch
    /\ lastFrame' = NoFrame
    /\ CbIdle

\* the cancelled ping task has ended
disconnect_after_ping ==
    /\ dpc = "await_ping"
    /\ DisconnectCancelRecv(drecv)
    /\ UNCHANGED <<smvars, restvars, api_key, secret_key, should_reconnect, ws_ping_task, recv_task, auto_reconnect,
                   opened, ppc, upc, drecv,
                   WsHist>>
    /\ lastEmit' = << >>
    /\ lastDispatch' = NoDispatch
    /\ lastFrame' = NoFrame
    /\ CbIdle

\* the cancelled receive task has ended
disconnect_after_recv ==
    /\ dpc = "await_recv"
    /\ DisconnectCloseWs
    /\ UNCHANGED <<smvars, restvars, api_key, secret_key, should_reconnect, ws_ping_task, recv_task, auto_reconnect,
                   opened, ppc, rpc, rsock, upc, drecv, WsHist>>
    /\ lastEmit' = << >>
    /\ lastDispatch' = NoDispatch
    /\ lastFrame' = NoFrame
    /\ CbIdle

\* close() returned: "self._ws = None" (websocket.py:191), then the flags
disconnect_closed ==
    /\ dpc = "closing"
    /\ ws' = NoSocket
    /\ DisconnectFinish
    /\ UNCHANGED <<smvars, restvars, api_key, secret_key, should_reconnect, ws_ping_task, recv_task, auto_reconnect,
                   opened, sockState, closeCode, ppc, rpc, rsock, upc, drecv, WsHist>>
    /\ lastEmit' = << >>
    /\ lastDispatch' = NoDispatch
    /\ lastFrame' = NoFrame
    /\ CbIdle

LoginRefused_noguard == FALSE

\* "if not self._is_connected: raise" (websocket.py:380-381)
LoginRefused == ~is_connected

\* what _send does with a message (websocket.py:205-217): the socket it is sent on
SendTarget ==
    IF ws = NoSocket \/ ~is_connected THEN NoSocket
    ELSE IF sockState[ws] = "open" THEN ws ELSE NoSocket

\* the clock readings: int(time.time() * 1000), a count of milliseconds
Clock == 0..MaxClock

Digit == <<"0", "1", "2", "3", "4", "5", "6", "7", "8", "9">>

RECURSIVE DecStr(_)
\* str(n) for an int n >= 0 (websocket.py:384): its decimal digits
DecStr(n) == IF n < 10 THEN Digit[n + 1] ELSE DecStr(n \div 10) \o Digit[(n % 10) + 1]

\* hmac.new(key.encode(), msg.encode(), hashlib.sha256).hexdigest()
\* (websocket.py:386-390), kept as the term it computes: the digest, the key and the
\* message determine the value, and different terms are different signatures
Hmac(key, msg) == <<"hmac-sha256-hex", key, msg>>

SignatureString_reversed(key, req_time) == req_time \o key

\* signature_string = f"{self.config.api_key}{req_time}" (websocket.py:385)
SignatureString(key, req_time) == key \o req_time

\* the message login() hands to _send (websocket.py:384-402)
LoginMessage(now, subscribe) ==
    [subscribe |-> subscribe, method |-> "login", apiKey |-> api_key,
     signature |-> Hmac(secret_key, SignatureString(api_key, DecStr(now))),
     reqTime |-> DecStr(now)]

\* login(subscribe) called when the clock reads now (websocket.py:371-402)
login(now, subscribe) ==
    /\ lastCall' =
          IF LoginRefused
          THEN [op |-> "login", raised |-> "MexcWebSocketError", sent |-> NoSocket,
                pre |-> Flags]
          ELSE [op |-> "login",
                raised |-> IF ws # NoSocket /\ is_connected /\ sockState[ws] # "open"
                           THEN "ConnectionClosed" ELSE "none",
                sent |-> SendTarget, pre |-> Flags,
                now |-> now, msg |-> LoginMessage(now, subscribe)]
    /\ UNCHANGED <<smvars, restvars, api_key, secret_key, ws, Flags, ws_ping_task, recv_task, auto_reconnect, opened,
                   sockState, closeCode, ppc, rpc, rsock, upc, dpc, drecv, WsHist, discReturned>>
    /\ lastEmit' = << >>
    /\ lastDispatch' = NoDispatch
    /\ lastFrame' = NoFrame
    /\ UNCHANGED loginSock
    /\ CbIdle

\* set_personal_filter and the private subscriptions, each of which only calls it
\* with its own filter list (websocket.py:404-462)
PrivateOps ==
    {"set_personal_filter", "subscribe_to_orders", "subscribe_to_order_deals",
     "subscribe_to_positions", "subscribe_to_assets", "subscribe_to_adl_levels",
     "subscribe_to_all_private"}

FilterRefused_noguard == FALSE

\* "if not self._is_logged_in: raise" (websocket.py:416-417)
FilterRefused == ~is_logged_in

\* set_personal_filter(), directly or through a private subscription
\* (websocket.py:404-424): the guard, then _send
set_personal_filter(op) ==
    /\ lastCall' =
          IF FilterRefused
          THEN [op |-> op, raised |-> "MexcWebSocketError", sent |-> NoSocket,
                pre |-> Flags]
          ELSE [op |-> op,
                raised |-> IF ws # NoSocket /\ is_connected /\ sockState[ws] # "open"
                           THEN "ConnectionClosed" ELSE "none",
                sent |-> SendTarget, pre |-> Flags]
    /\ UNCHANGED <<smvars, restvars, api_key, secret_key, ws, Flags, ws_ping_task, recv_task, auto_reconnect, opened,
                   sockState, closeCode, ppc, rpc, rsock, upc, dpc, drecv, WsHist,
                   discReturned, loginSock>>
    /\ lastEmit' = << >>
    /\ lastDispatch' = NoDispatch
    /\ lastFrame' = NoFrame
    /\ CbIdle

\* KLINE_INTERVALS (constants.py:132-143)
KLINE_INTERVALS ==
    {"Min1", "Min5", "Min15", "Min30", "Min60", "Hour4", "Hour8", "Day1", "Week1", "Month1"}

\* the interval arguments the caller passes to subscribe_to_kline: two members of
\* KLINE_INTERVALS and two strings outside it
IntervalArgs == {"Min1", "Month1", "Min2", ""}

\* the public subscribe and unsubscribe operations (websocket.py:466-619)
PublicOps ==
    {"subscribe_to_all_tickers", "unsubscribe_from_all_tickers",
     "subscribe_to_ticker", "unsubscribe_from_ticker",
     "subscribe_to_deals", "unsubscribe_from_deals",
     "subscribe_to_depth", "unsubscribe_from_depth",
     "subscribe_to_full_depth", "unsubscribe_from_full_depth",
     "subscribe_to_kline", "unsubscribe_from_kline",
     "subscribe_to_funding_rate", "unsubscribe_from_funding_rate",
     "subscribe_to_index_price", "unsubscribe_from_index_price",
     "subscribe_to_fair_price", "unsubscribe_from_fair_price"}

\* the "method" of the message each public operation hands to _send
\* (websocket.py:472-619)
PublicMethod(op) ==
    CASE op = "subscribe_to_all_tickers" -> "sub.tickers"
      [] op = "unsubscribe_from_all_tickers" -> "unsub.tickers"
      [] op = "subscribe_to_ticker" -> "sub.ticker"
      [] op = "unsubscribe_from_ticker" -> "unsub.ticker"
      [] op = "subscribe_to_deals" -> "sub.deal"
      [] op = "unsubscribe_from_deals" -> "unsub.deal"
      [] op = "subscribe_to_depth" -> "sub.depth"
      [] op = "subscribe_to_full_depth" -> "sub.depth.full"
      [] op = "unsubscribe_from_depth" -> "unsub.depth"
      [] op = "unsubscribe_from_full_depth" -> "usub.depth.full"
      [] op = "subscribe_to_kline" -> "sub.kline"
      [] op = "unsubscribe_from_kline" -> "unsub.kline"
      [] op = "subscribe_to_funding_rate" -> "sub.funding.rate"
      [] op = "unsubscribe_from_funding_rate" -> "unsub.funding.rate"
      [] op = "subscribe_to_index_price" -> "sub.index.price"
      [] op = "unsubscribe_from_index_price" -> "unsub.index.price"
      [] op = "subscribe_to_fair_price" -> "sub.fair.price"
      [] op = "unsubscribe_from_fair_price" -> "unsub.fair.price"

\* the keys of the "param" of the message of each public operation
\* (websocket.py:472-619)
PublicParam(op) ==
    CASE op \in {"subscribe_to_all_tickers", "unsubscribe_from_all_tickers"} -> {}
      [] op = "subscribe_to_depth" -> {"symbol", "compress"}
      [] op = "subscribe_to_full_depth" -> {"symbol", "limit"}
      [] op = "subscribe_to_kline" -> {"symbol", "interval"}
      [] OTHER -> {"symbol"}

KlineRefused_noguard(op, interval) == FALSE

\* "if interval not in KLINE_INTERVALS: raise ValueError" (websocket.py:560-561)
KlineRefused(op, interval) == op = "subscribe_to_kline" /\ interval \notin KLINE_INTERVALS

SendRefused_socketonly == ws = NoSocket

\* "if not self._ws or not self._is_connected: ... return" (websocket.py:211-213)
SendRefused == ws = NoSocket \/ ~is_connected

\* _send(message) (websocket.py:205-217): what the call raises and the socket the
\* message went out on
SendOutcome ==
    IF SendRefused THEN [raised |-> "none", sent |-> NoSocket]
    ELSE IF sockState[ws] = "open" THEN [raised |-> "none", sent |-> ws]
    ELSE [raised |-> "ConnectionClosed", sent |-> NoSocket]

\* a public subscribe or unsubscribe operation (websocket.py:466-619): the interval
\* check of subscribe_to_kline, then _send. interval is read by subscribe_to_kline only.
public_call(op, interval) ==
    /\ lastCall' =
          IF KlineRefused(op, interval)
          THEN [op |-> op, raised |-> "ValueError", sent |-> NoSocket, pre |-> Flags,
                interval |-> interval]
          ELSE [op |-> op, raised |-> SendOutcome.raised, sent |-> SendOutcome.sent,
                pre |-> Flags, interval |-> interval,
                msg |-> [method |-> PublicMethod(op), param |-> PublicParam(op)]]
    /\ UNCHANGED <<smvars, restvars, api_key, secret_key, ws, Flags, ws_ping_task, recv_task, auto_reconnect, opened,
                   sockState, closeCode, ppc, rpc, rsock, upc, dpc, drecv, WsHist,
                   discReturned, loginSock>>
    /\ lastEmit' = << >>
    /\ lastDispatch' = NoDispatch
    /\ lastFrame' = NoFrame
    /\ CbIdle

\* the stream client, auto_reconnect off, and a caller of the public operations
NextPublic ==
    \/ connect_call
    \/ connect_ok
    \/ connect_fail
    \/ \E s \in Sockets : peer_close(s)
    \/ \E t \in Sockets : recv_closed(t)
    \/ disconnect_call
    \/ disconnect_after_ping
    \/ disconnect_after_recv
    \/ disconnect_closed
    \/ \E op \in PublicOps : public_call(op, "Min1")
    \/ \E i \in IntervalArgs : public_call("subscribe_to_kline", i)

\* the messages the connection-level model lets the server send
StreamMsgs ==
    { <<"rs.login", <<"str", "success", "">> >>, <<"rs.login", <<"dict", "int", "1">> >>,
      <<"push.ticker", <<"dict", "absent", "">> >> }

NextWS ==
    \/ connect_call
    \/ connect_ok
    \/ connect_fail
    \/ \E s \in Sockets : peer_close(s)
    \/ \E t \in Sockets, m \in StreamMsgs : recv_msg(t, m)
    \/ \E t \in Sockets : recv_spin(t)
    \/ \E t \in Sockets : recv_closed(t)
    \/ \E t \in Sockets : reconnect_wake(t)
    \/ \E t \in Sockets : reconnect_ok(t)
    \/ \E t \in Sockets : reconnect_fail(t)
    \/ \E t \in Sockets : ping_wake(t)
    \/ disconnect_call
    \/ disconnect_after_ping
    \/ disconnect_after_recv
    \/ disconnect_closed

\* a client configured with auto_reconnect off, so that _schedule_reconnect never
\* runs, and the caller using the private operations as well
NextCalls ==
    \/ connect_call
    \/ connect_ok
    \/ connect_fail
    \/ \E s \in Sockets : peer_close(s)
    \/ \E t \in Sockets, m \in StreamMsgs : recv_msg(t, m)
    \/ \E t \in Sockets : recv_spin(t)
    \/ \E t \in Sockets : recv_closed(t)
    \/ \E t \in Sockets : ping_wake(t)
    \/ disconnect_call
    \/ disconnect_after_ping
    \/ disconnect_after_recv
    \/ disconnect_closed
    \/ login(0, TRUE)
    \/ \E op \in PrivateOps : set_personal_filter(op)

\* one envelope handed to _handle_message (websocket.py:271-329)
handle_message(m) ==
    /\ is_logged_in' = HandleLoggedIn(m, is_logged_in)
    /\ lastFrame' = NoFrame
    /\ lastEmit' = HandleEmits(m)
    /\ lastDispatch' = [msg |-> m, pre |-> is_logged_in,
                        post |-> HandleLoggedIn(m, is_logged_in), emits |-> HandleEmits(m)]
    /\ UNCHANGED <<smvars, restvars, api_key, secret_key, ws, is_connected, should_reconnect, ws_ping_task, recv_task,
                   auto_reconnect, opened, sockState, closeCode, ppc, rpc, rsock, upc,
                   dpc, drecv, WsHist, discReturned>>
    /\ lastCall' = NoCall
    /\ UNCHANGED loginSock
    /\ CbIdle

NextDispatch == \E m \in Msgs : handle_message(m)

\* ---- _emit with registered callbacks (websocket.py:90-150)
\* on(event)(func) and add_callback(event, callback) (websocket.py:107-124): the
\* callback is appended to the event's list
add_callback(e, k) ==
    /\ registered < MaxRegs
    /\ registered' = registered + 1
    /\ cbKind' = [cbKind EXCEPT ![registered + 1] = k]
    /\ callbacks' = [callbacks EXCEPT ![e] = Append(@, registered + 1)]
    /\ UNCHANGED <<smvars, restvars, api_key, secret_key, ws, Flags, ws_ping_task, recv_task, auto_reconnect, opened,
                   sockState, closeCode, ppc, rpc, rsock, upc, dpc, drecv, WsHist,
                   discReturned, loginSock, eevent, eidx, einv>>
    /\ lastEmit' = << >>
    /\ lastCall' = NoCall
    /\ lastDispatch' = NoDispatch
    /\ lastFrame' = NoFrame
    /\ lastRun' = NoRun

\* the callback objects the caller of the registry holds; two of them are the same
\* callback when Python's == says so (websocket.py:134)
Callbacks == 1..MaxCallbacks

\* the event names remove_callback is called with: the events of CbEvents, whose
\* lists exist (empty until add_callback appends), and one event that is no key of
\* self._callbacks
RemoveEvents == CbEvents \cup {"kline"}

\* add_callback(event, callback) with a callback object of Callbacks, the same one
\* any number of times (websocket.py:115-124); what the callback does when called is
\* not read by the registry
register(e, c) ==
    /\ callbacks' = [callbacks EXCEPT ![e] = Append(@, c)]
    /\ UNCHANGED <<smvars, restvars, api_key, secret_key, ws, Flags, ws_ping_task, recv_task, auto_reconnect, opened,
                   sockState, closeCode, ppc, rpc, rsock, upc, dpc, drecv, WsHist,
                   discReturned, loginSock, cbKind, registered, eevent, eidx, einv>>
    /\ lastEmit' = << >>
    /\ lastCall' = NoCall
    /\ lastDispatch' = NoDispatch
    /\ lastFrame' = NoFrame
    /\ lastRun' = NoRun

RECURSIVE Remaining_firstonly(_, _)
Remaining_firstonly(list, callback) ==
    IF list = << >> THEN << >>
    ELSE IF Head(list) = callback THEN Tail(list)
    ELSE <<Head(list)>> \o Remaining_firstonly(Tail(list), callback)

\* [cb for cb in self._callbacks[event] if cb != callback] (websocket.py:134)
Remaining(list, callback) == SelectSeq(list, LAMBDA cb : cb # callback)

\* remove_callback(event, callback) (websocket.py:126-134); lastCall records the
\* call and how many entries the event's list lost
remove_callback(e, c) ==
    /\ callbacks' = IF e \in DOMAIN callbacks
                    THEN [callbacks EXCEPT ![e] = Remaining(@, c)]
                    ELSE callbacks
    /\ lastCall' = [op |-> "remove_callback", raised |-> "none", sent |-> NoSocket,
                    pre |-> Flags, event |-> e, cb |-> c,
                    removed |-> IF e \in DOMAIN callbacks
                                THEN Len(callbacks[e]) - Len(callbacks'[e]) ELSE 0]
    /\ UNCHANGED <<smvars, restvars, api_key, secret_key, ws, Flags, ws_ping_task, recv_task, auto_reconnect, opened,
                   sockState, closeCode, ppc, rpc, rsock, upc, dpc, drecv, WsHist,
                   discReturned, loginSock, cbKind, registered, eevent, eidx, einv>>
    /\ lastEmit' = << >>
    /\ lastDispatch' = NoDispatch
    /\ lastFrame' = NoFrame
    /\ lastRun' = NoRun

\* the callback registry alone: a caller that registers and removes callbacks, with
\* up to MaxCallbacks + 1 entries under `ticker` and one under `deal`
NextRegistry ==
    \/ \E c \in Callbacks : Len(callbacks["ticker"]) <= MaxCallbacks /\ register("ticker", c)
    \/ \E c \in Callbacks : Len(callbacks["deal"]) < 1 /\ register("deal", c)
    \/ \E e \in RemoveEvents, c \in Callbacks : remove_callback(e, c)

IsAsync(r) == cbKind[r] \in {"async_ok", "async_raises"}

RaiseStopsEmit_uncaught == TRUE

\* "except Exception as e: self.logger.error(...)" inside the for loop
\* (websocket.py:149-150): an Exception of a callback does not leave the loop
RaiseStopsEmit == FALSE

RECURSIVE RunCallbacks(_, _, _)
\* the for loop of _emit (websocket.py:144-150) from list index i on, up to the first
\* callback whose coroutine suspends: the index awaited (0 when the loop has ended)
\* and the registrations called
RunCallbacks(list, i, inv) ==
    IF i > Len(list)
    THEN [idx |-> 0, inv |-> inv]
    ELSE IF IsAsync(list[i])
         THEN [idx |-> i, inv |-> Append(inv, list[i])]
         ELSE IF cbKind[list[i]] = "raises" /\ RaiseStopsEmit
              THEN [idx |-> 0, inv |-> Append(inv, list[i])]
              ELSE RunCallbacks(list, i + 1, Append(inv, list[i]))

\* receive task t goes on after run r of the _emit of event e: it awaits the callback
\* at r.idx, or _emit and _handle_message have returned and the loop continues
\* (websocket.py:239, :234)
EmitGoesOn(t, e, r) ==
    IF r.idx # 0
    THEN /\ rpc' = [rpc EXCEPT ![t] = "dispatch"]
         /\ rsock' = [rsock EXCEPT ![t] = NoSocket]
         /\ eevent' = [eevent EXCEPT ![t] = e]
         /\ eidx' = [eidx EXCEPT ![t] = r.idx]
         /\ einv' = [einv EXCEPT ![t] = r.inv]
         /\ lastRun' = NoRun
    ELSE /\ rpc' = [rpc EXCEPT ![t] = RecvLoopNext(t, is_connected, ws)]
         /\ rsock' = [rsock EXCEPT ![t] = IF RecvLoopNext(t, is_connected, ws) = "recv"
                                          THEN ws ELSE NoSocket]
         /\ eevent' = [eevent EXCEPT ![t] = ""]
         /\ eidx' = [eidx EXCEPT ![t] = 0]
         /\ einv' = [einv EXCEPT ![t] = << >>]
         /\ lastRun' = [task |-> t, event |-> e, invoked |-> r.inv,
                        listed |-> callbacks[e]]

\* the envelopes pushed to a client with callbacks
CbMsgs ==
    { <<"push.ticker", <<"dict", "absent", "">> >>, <<"push.deal", <<"dict", "absent", "">> >> }

\* recv() returned envelope m to receive task t: _handle_message and _emit run up to
\* the first await of a callback's coroutine (websocket.py:236-239, :143-148)
emit_begin(t, m) ==
    /\ rpc[t] = "recv"
    /\ sockState[rsock[t]] = "open"
    /\ lastFrame' = [task |-> t, kind |-> "object", caught |-> "none", pre |-> is_connected]
    /\ is_logged_in' = HandleLoggedIn(m, is_logged_in)
    /\ loginSock' = HandleLoginSock(m, rsock[t], loginSock)
    /\ lastEmit' = HandleEmits(m)
    /\ lastDispatch' = [msg |-> m, pre |-> is_logged_in,
                        post |-> HandleLoggedIn(m, is_logged_in), emits |-> HandleEmits(m)]
    /\ EmitGoesOn(t, HandleEmits(m)[1][1],
                  RunCallbacks(callbacks[HandleEmits(m)[1][1]], 1, << >>))
    /\ UNCHANGED <<smvars, restvars, api_key, secret_key, ws, is_connected, should_reconnect, ws_ping_task, recv_task,
                   auto_reconnect, opened, sockState, closeCode, ppc, upc, dpc, drecv,
                   WsHist, discReturned, callbacks, cbKind, registered>>
    /\ lastCall' = NoCall

\* the coroutine of the awaited callback has ended, by returning or by raising an
\* Exception; the for loop goes on over the event's list (websocket.py:147-150)
emit_resume(t) ==
    /\ rpc[t] = "dispatch"
    /\ EmitGoesOn(t, eevent[t],
                  IF cbKind[callbacks[eevent[t]][eidx[t]]] = "async_raises" /\ RaiseStopsEmit
                  THEN [idx |-> 0, inv |-> einv[t]]
                  ELSE RunCallbacks(callbacks[eevent[t]], eidx[t] + 1, einv[t]))
    /\ UNCHANGED <<smvars, restvars, api_key, secret_key, ws, Flags, ws_ping_task, recv_task, auto_reconnect, opened,
                   sockState, closeCode, ppc, upc, dpc, drecv, WsHist, discReturned,
                   loginSock, callbacks, cbKind, registered>>
    /\ lastEmit' = << >>
    /\ lastCall' = NoCall
    /\ lastDispatch' = NoDispatch
    /\ lastFrame' = NoFrame

\* ---- disconnect() awaited by a callback, inside the receive task (websocket.py:136-150,
\* :174-194). The callback is a coroutine function registered for `ticker`; the receive
\* task that dispatches a pushed ticker runs disconnect() itself and is at "cbdisc"
\* while that disconnect() is suspended; dpc is the position of that disconnect().
TickerMsg == <<"push.ticker", <<"dict", "absent", "">> >>

\* the callback is suspended inside disconnect(); the tasks of `cancelled` have been cancelled
CbStay(t, cancelled) ==
    /\ rpc' = [u \in Sockets |-> IF u = t THEN "cbdisc"
                                 ELSE IF u \in cancelled THEN "cancelled" ELSE rpc[u]]
    /\ rsock' = [u \in Sockets |-> IF u = t \/ u \in cancelled THEN NoSocket ELSE rsock[u]]
    /\ eevent' = [eevent EXCEPT ![t] = "ticker"]
    /\ eidx' = [eidx EXCEPT ![t] = 1]
    /\ einv' = [einv EXCEPT ![t] = <<callbacks["ticker"][1]>>]
    /\ lastRun' = NoRun

\* disconnect() has ended, the callback and _emit return and the receive loop tests
\* its condition (websocket.py:148-150, :239, :234)
CbReturn(t) ==
    /\ rpc' = [rpc EXCEPT ![t] = RecvLoopNext(t, is_connected', ws')]
    /\ rsock' = [rsock EXCEPT ![t] = IF RecvLoopNext(t, is_connected', ws') = "recv"
                                     THEN ws' ELSE NoSocket]
    /\ eevent' = [eevent EXCEPT ![t] = ""]
    /\ eidx' = [eidx EXCEPT ![t] = 0]
    /\ einv' = [einv EXCEPT ![t] = << >>]
    /\ lastRun' = [task |-> t, event |-> "ticker", invoked |-> <<callbacks["ticker"][1]>>,
                   listed |-> callbacks["ticker"]]

SelfAwait_runtime == "RuntimeError"

\* "task.cancel(); try: await task; except asyncio.CancelledError: pass"
\* (websocket.py:182-186) when task is the task that runs the statement: the await of
\* itself is answered with an exception thrown into the task at its next step, and
\* the cancellation requested just before makes that exception CancelledError
SelfAwait == "CancelledError"

\* "if self._ws: await self._ws.close()" inside the callback's disconnect()
CbCloseWs(t) ==
    /\ DisconnectCloseWs
    /\ IF ws # NoSocket THEN CbStay(t, {}) ELSE CbReturn(t)

\* the for loop of disconnect() reaches the receive task r of its list
\* (websocket.py:180-186): r is the running task itself, another live task, or done
CbCancelRecv(t, r) ==
    IF r = t
    THEN /\ UNCHANGED <<ws, is_connected, is_logged_in, sockState, closeCode, discReturned,
                        loginSock>>
         /\ IF SelfAwait = "CancelledError"
            THEN /\ dpc' = "await_recv"
                 /\ lastCall' = NoCall
                 /\ CbStay(t, {})
            ELSE /\ dpc' = "idle"
                 /\ lastCall' = [op |-> "disconnect", raised |-> SelfAwait, sent |-> NoSocket,
                                 pre |-> Flags, again |-> discReturned]
                 /\ CbReturn(t)
    ELSE IF RLive(r)
         THEN /\ UNCHANGED <<ws, is_connected, is_logged_in, sockState, closeCode,
                             discReturned, loginSock>>
              /\ dpc' = "await_recv"
              /\ lastCall' = NoCall
              /\ CbStay(t, {r})
         ELSE CbCloseWs(t)

\* recv() returned a pushed ticker to receive task t and the callback registered for
\* `ticker` awaits disconnect() (websocket.py:236-239, :143-148, :174-186)
cb_disconnect_call(t) ==
    /\ rpc[t] = "recv"
    /\ sockState[rsock[t]] = "open"
    /\ dpc = "idle"
    /\ Len(callbacks["ticker"]) = 1
    /\ cbKind[callbacks["ticker"][1]] = "async_disconnect"
    /\ lastFrame' = [task |-> t, kind |-> "object", caught |-> "none", pre |-> is_connected]
    /\ lastEmit' = HandleEmits(TickerMsg)
    /\ lastDispatch' = [msg |-> TickerMsg, pre |-> is_logged_in, post |-> is_logged_in,
                        emits |-> HandleEmits(TickerMsg)]
    /\ should_reconnect' = DisconnectReconnectFlag
    /\ drecv' = recv_task
    /\ IF PLive(ws_ping_task)
       THEN /\ ppc' = [ppc EXCEPT ![ws_ping_task] = "cancelled"]
            /\ dpc' = "await_ping"
            /\ lastCall' = NoCall
            /\ UNCHANGED <<ws, is_connected, is_logged_in, sockState, closeCode,
                           discReturned, loginSock>>
            /\ CbStay(t, {})
       ELSE /\ UNCHANGED ppc
            /\ CbCancelRecv(t, recv_task)
    /\ UNCHANGED <<smvars, restvars, api_key, secret_key, ws_ping_task, recv_task,
                   auto_reconnect, opened, upc, WsHist, callbacks, cbKind, registered>>

\* the cancelled ping task has ended and the callback's disconnect() goes on
cb_disconnect_after_ping(t) ==
    /\ rpc[t] = "cbdisc"
    /\ dpc = "await_ping"
    /\ CbCancelRecv(t, drecv)
    /\ UNCHANGED <<smvars, restvars, api_key, secret_key, should_reconnect, ws_ping_task,
                   recv_task, auto_reconnect, opened, ppc, upc, drecv, WsHist, callbacks,
                   cbKind, registered>>
    /\ lastEmit' = << >>
    /\ lastDispatch' = NoDispatch
    /\ lastFrame' = NoFrame

\* the await of the receive task of the list has ended: the cancelled task is done, or
\* the CancelledError thrown into the running task was caught (websocket.py:185-186)
cb_disconnect_after_recv(t) ==
    /\ rpc[t] = "cbdisc"
    /\ dpc = "await_recv"
    /\ CbCloseWs(t)
    /\ UNCHANGED <<smvars, restvars, api_key, secret_key, should_reconnect, ws_ping_task,
                   recv_task, auto_reconnect, opened, ppc, upc, drecv, WsHist, callbacks,
                   cbKind, registered>>
    /\ lastEmit' = << >>
    /\ lastDispatch' = NoDispatch
    /\ lastFrame' = NoFrame

\* close() returned inside the callback's disconnect() (websocket.py:191-194)
cb_disconnect_closed(t) ==
    /\ rpc[t] = "cbdisc"
    /\ dpc = "closing"
    /\ ws' = NoSocket
    /\ DisconnectFinish
    /\ CbReturn(t)
    /\ UNCHANGED <<smvars, restvars, api_key, secret_key, should_reconnect, ws_ping_task,
                   recv_task, auto_reconnect, opened, sockState, closeCode, ppc, upc, drecv,
                   WsHist, callbacks, cbKind, registered>>
    /\ lastEmit' = << >>
    /\ lastDispatch' = NoDispatch
    /\ lastFrame' = NoFrame

\* the stream client with one callback that disconnects, no other disconnect() in flight
NextReentry ==
    \/ registered = 0 /\ add_callback("ticker", "async_disconnect")
    \/ connect_call
    \/ connect_ok
    \/ connect_fail
    \/ \E s \in Sockets : peer_close(s)
    \/ \E t \in Sockets : recv_msg(t, <<"rs.login", <<"str", "success", "">> >>)
    \/ \E t \in Sockets : recv_spin(t)
    \/ \E t \in Sockets : recv_closed(t)
    \/ \E t \in Sockets : reconnect_wake(t)
    \/ \E t \in Sockets : reconnect_ok(t)
    \/ \E t \in Sockets : reconnect_fail(t)
    \/ \E t \in Sockets : ping_wake(t)
    \/ \E t \in Sockets : cb_disconnect_call(t)
    \/ \E t \in Sockets : cb_disconnect_after_ping(t)
    \/ \E t \in Sockets : cb_disconnect_after_recv(t)
    \/ \E t \in Sockets : cb_disconnect_closed(t)

\* the stream client with callbacks registered, while its connections stay open
NextEmit ==
    \/ connect_call
    \/ connect_ok
    \/ \E e \in CbEvents, k \in CbKinds : add_callback(e, k)
    \/ \E t \in Sockets, m \in CbMsgs : emit_begin(t, m)
    \/ \E t \in Sockets : emit_resume(t)
    \/ \E t \in Sockets : recv_spin(t)

\* the stream client logging in at every clock reading
NextLogins ==
    \/ connect_call
    \/ connect_ok
    \/ \E s \in Sockets : peer_close(s)
    \/ \E now \in Clock, subscribe \in BOOLEAN : login(now, subscribe)

\* the stream client receiving frames of every kind, auto-reconnect off
NextFrames ==
    \/ connect_call
    \/ connect_ok
    \/ \E s \in Sockets : peer_close(s)
    \/ \E t \in Sockets, m \in StreamMsgs : recv_msg(t, m)
    \/ \E t \in Sockets, k \in BadFrames : recv_frame(t, k)
    \/ \E t \in Sockets : recv_spin(t)
    \/ \E t \in Sockets : recv_closed(t)

\* ------------------------------------------------------ specifications
\* the session manager alone
InitSession == Init /\ auto_reconnect = TRUE /\ FixedKeys

SessionSpec == InitSession /\ [][NextSM]_vars

\* the stream client alone
InitStream == Init /\ max_idle_pings = 0 /\ FixedKeys

StreamSpec == InitStream /\ [][NextWS]_vars

\* the stream client with auto_reconnect off and its private operations
InitCalls == Init /\ max_idle_pings = 0 /\ auto_reconnect = FALSE /\ FixedKeys

CallSpec == InitCalls /\ [][NextCalls]_vars

\* the stream client delivering pushed envelopes to registered callbacks
InitEmit == Init /\ max_idle_pings = 0 /\ auto_reconnect = TRUE /\ FixedKeys

EmitSpec == InitEmit /\ [][NextEmit]_vars

\* the stream client receiving frames of every kind
InitFrames == Init /\ max_idle_pings = 0 /\ auto_reconnect = FALSE /\ FixedKeys

FrameSpec == InitFrames /\ [][NextFrames]_vars

\* the REST request layer and a session manager
InitRequests == Init /\ auto_reconnect = TRUE /\ FixedKeys

RestSpec == InitRequests /\ [][NextRest]_vars

\* the stream client logging in, over every configuration of credentials
InitLogins == Init /\ max_idle_pings = 0 /\ auto_reconnect = FALSE

LoginSpec == InitLogins /\ [][NextLogins]_vars

\* the message dispatch alone, over every envelope of Msgs
InitDispatch == Init /\ max_idle_pings = 0 /\ auto_reconnect = TRUE /\ FixedKeys

DispatchSpec == InitDispatch /\ [][NextDispatch]_vars

\* the stream client whose `ticker` callback awaits disconnect()
InitReentry == Init /\ max_idle_pings = 0 /\ FixedKeys

ReentrySpec == InitReentry /\ [][NextReentry]_vars

\* the stream client with auto_reconnect off and its public operations
InitPublic == Init /\ max_idle_pings = 0 /\ auto_reconnect = FALSE /\ FixedKeys

PublicSpec == InitPublic /\ [][NextPublic]_vars

\* the callback registry of the stream client alone
InitRegistry == Init /\ max_idle_pings = 0 /\ auto_reconnect = TRUE /\ FixedKeys

RegistrySpec == InitRegistry /\ [][NextRegistry]_vars

\* ------------------------------------------------------------- claims
OpenHandles == {h \in 1..created : h \notin closed}

\* C1: get_client() calls issued concurrently in one expiry cycle (no step of close()
\* or of the keep-alive teardown since) construct the client at most once, and every
\* one of them returns that same, present handle.
C1_SingleConstruction ==
    /\ cycleCreates <= 1
    /\ Cardinality(cycleRets) <= 1
    /\ cycleRets \subseteq {client} \ {NoHandle}

C1_Witness ==
    /\ overlap
    /\ cycleCreates = 1
    /\ \A p \in Callers : clean[p] /\ gpc[p] = "idle" /\ ret[p] = client
    /\ client # NoHandle

\* C2: at most one constructed handle is open, and every constructed handle the
\* manager no longer references is closed.
C2_OneOpenNoLeak ==
    /\ Cardinality(OpenHandles) <= 1
    /\ \A h \in OpenHandles : h = client

\* C4: whatever get_client() returned was a present handle, open when returned.
C4_ReturnsOpenHandle ==
    \A p \in Callers : ret[p] # NoRet => (ret[p] # NoHandle /\ retActive[p])

\* C5: with every ping succeeding and no notify_activity(), the keep-alive task
\* expires the connection at the wake-up that follows its max_idle_pings-th ping
\* (not earlier, not later), is_active is false from then until a client is
\* constructed again, and a get_client() call issued after the teardown returns an
\* open handle, hence not the expired one.
C5_IdleExpiry ==
    /\ (kexpired /\ ~knotified) => kpings = max_idle_pings
    /\ (~knotified /\ kpings >= max_idle_pings /\ kpc \in {"ping", "aclose", "done"})
          => (kexpired /\ kpc # "ping")
    /\ (kexpired /\ cycleCreates = 0) => ~is_active
    /\ \A p \in Callers : (clean[p] /\ ret[p] # NoRet) => (retActive[p] /\ ret[p] \notin closed)

C5_Witness ==
    /\ kexpired /\ ~knotified /\ ~kfailed
    /\ max_idle_pings >= 1
    /\ kpings = max_idle_pings
    /\ \E p \in Callers : clean[p] /\ gpc[p] = "warmup"
    /\ client = 2 /\ is_active /\ 1 \in closed

\* C6: for max_idle_pings >= 1, a keep-alive task that saw notify_activity() between
\* every ping's completion and the next wake-up never takes the idle-expiry branch.
C6_NotifyKeepsAlive ==
    (max_idle_pings >= 1 /\ ~gapMissed) => ~kexpired

C6_Witness ==
    /\ max_idle_pings >= 1
    /\ kpings > max_idle_pings
    /\ ~gapMissed /\ ~kexpired /\ ~kfailed
    /\ kpc = "sleep"
    /\ is_active

OpenSockets == {s \in Sockets : sockState[s] = "open"}

\* C3: at most one socket opened by the client is un-closed, and a socket that was
\* replaced as the stored one is closed: every open socket is the stored socket.
C3_OneLiveSocket ==
    /\ Cardinality(OpenSockets) <= 1
    /\ \A s \in OpenSockets : s = ws

C8_DisconnectFinal ==
    discReturned =>
        (~is_connected /\ ~is_logged_in /\ ws = NoSocket /\ ~should_reconnect)

\* C9: login() called while connected is false raises MexcWebSocketError, sends
\* nothing and leaves connected, logged_in and should_reconnect as they were.
C9_LoginRequiresConnection ==
    (lastCall.op = "login" /\ ~lastCall.pre[1]) =>
        /\ lastCall.raised = "MexcWebSocketError"
        /\ lastCall.sent = NoSocket
        /\ Flags = lastCall.pre

C9_Witness ==
    /\ lastCall.op = "login" /\ ~lastCall.pre[1]
    /\ ws # NoSocket
    /\ lastCall.raised = "MexcWebSocketError"

\* C11: logged_in implies connected, and logged_in is true only through a successful
\* rs.login reply received on the stored socket since the last disconnect or closure.
C11_LoggedInOnCurrentConnection ==
    is_logged_in => (is_connected /\ ws # NoSocket /\ loginSock = ws)

\* C12: set_personal_filter() and every private subscription called while logged_in
\* is false raise MexcWebSocketError, send nothing and change no flag.
C12_FilterRequiresLogin ==
    (lastCall.op \in PrivateOps /\ ~lastCall.pre[2]) =>
        /\ lastCall.raised = "MexcWebSocketError"
        /\ lastCall.sent = NoSocket
        /\ Flags = lastCall.pre

\* a private subscription refused on a connected client with an open socket
C12_Witness ==
    /\ lastCall.op = "subscribe_to_positions"
    /\ lastCall.pre[1] /\ ~lastCall.pre[2]
    /\ ws # NoSocket /\ sockState[ws] = "open"
    /\ lastCall.raised = "MexcWebSocketError"

\* C13: while auto-reconnect is enabled, a receive task that handles the closure of
\* its transport (whoever opened that connection) goes on to sleep for a reconnect,
\* and a sleeping reconnect ends only by making its connect() attempt or by being
\* cancelled.
C13_ClosureSchedulesReconnect ==
    [][\A t \in Sockets :
          /\ (discEmits'[t] # discEmits[t] /\ should_reconnect)
                => (rpc'[t] = "resleep" /\ ~is_connected')
          /\ rpc[t] = "resleep" => rpc'[t] \in {"resleep", "reconnect", "cancelled"}
          /\ (rpc[t] = "resleep" /\ rpc'[t] = "reconnect")
                => attempts'[t] = attempts[t] + 1]_vars

\* the connection a reconnect opened has closed in its turn and its receive task
\* sleeps for the next reconnect
C13_Witness ==
    /\ rok[1] /\ opened = 2
    /\ sockState[2] = "peerclosed"
    /\ discEmits[2] = 1
    /\ rpc[2] = "resleep"
    /\ should_reconnect /\ ~is_connected

\* C14: while auto-reconnect remains enabled, a failed reconnect attempt is always
\* followed by another reconnect_interval sleep and attempt, without a maximum
\* number of attempts.
C14_RetryWithoutLimit ==
    [][\A t \in Sockets :
          (rpc[t] = "reconnect" /\ rpc'[t] # "reconnect" /\ ~rok'[t] /\ should_reconnect')
              => rpc'[t] = "resleep"]_vars

\* C15: while close() or disconnect() closes the transport every background task of
\* the manager has ended, and no receive task waits on a socket disconnect() closed.
C15_TasksEndedBeforeTeardown ==
    /\ cpc = "aclose" => ~KLive
    /\ dpc = "closing" => \A t \in Sockets : ~PLive(t) /\ ~RLive(t)
    /\ \A t \in Sockets : rpc[t] = "recv" => sockState[rsock[t]] # "closed"

\* C16: no two received messages are being handled at once: at most one receive task
\* is inside _handle_message, awaiting a callback, at any time.
C16_NoConcurrentDispatch ==
    Cardinality({t \in Sockets : rpc[t] = "dispatch"}) <= 1

\* C17: an _emit() that has ended called every registration listed for its event once,
\* in list order, whether or not some of them raised, and its receive task went on
\* with the loop; an _emit() awaiting a callback has called exactly the registrations
\* up to that one.
C17_EveryCallbackRuns ==
    /\ lastRun.task # 0 =>
          /\ lastRun.invoked = lastRun.listed
          /\ rpc[lastRun.task] \in {"recv", "spin"}
    /\ \A t \in Sockets : rpc[t] = "dispatch" =>
          einv[t] = SubSeq(callbacks[eevent[t]], 1, eidx[t])

\* an emission with two registrations whose first one raised
C17_Witness ==
    /\ lastRun.task # 0
    /\ Len(lastRun.invoked) = 2
    /\ cbKind[lastRun.invoked[1]] \in {"raises", "async_raises"}
    /\ lastRun.invoked[1] < lastRun.invoked[2]

\* C18: a pushed envelope whose channel is in the channel-to-event table causes
\* exactly one emission, of the mapped event with the envelope's data; one whose
\* channel is neither a control channel nor in the table causes exactly one `message`
\* emission with the whole envelope; neither changes logged_in.
C18_ChannelMapping ==
    /\ lastDispatch.msg[1] \in
            { "push.tickers", "push.ticker", "push.deal", "push.depth", "push.kline",
              "push.funding.rate", "push.index.price", "push.fair.price",
              "push.personal.order", "push.personal.order.deal",
              "push.personal.position", "push.personal.asset",
              "push.personal.stop.order", "push.personal.stop.planorder",
              "push.personal.liquidate.risk", "push.personal.adl.level",
              "push.personal.risk.limit", "push.personal.plan.order" }
          => /\ lastEmit = << <<channel_map[lastDispatch.msg[1]], "data", lastDispatch.msg[2]>> >>
             /\ lastEmit[1][1] \notin {"message", ""}
             /\ lastDispatch.post = lastDispatch.pre
    /\ (lastDispatch # NoDispatch
           /\ lastDispatch.msg[1] \notin ControlChannels \cup SubChannels \cup UnsubChannels
           /\ lastDispatch.msg[1] \notin DOMAIN channel_map)
          => /\ lastEmit = << <<"message", "envelope", lastDispatch.msg>> >>
             /\ lastDispatch.post = lastDispatch.pre

\* a pushed position update was delivered as `position_update` with its data
C18_Witness ==
    /\ lastDispatch.msg = <<"push.personal.position", <<"dict", "int", "1">> >>
    /\ lastEmit = << <<"position_update", "data", <<"dict", "int", "1">> >> >>

\* C21: a get_client() whose warm-up request failed raises nothing, has started the
\* keep-alive task with the idle counter at zero and has released the lock; what it
\* returns is the stored client, which is the open client it constructed unless a step
\* of close() or of the keep-alive teardown ran during the warm-up.
C21_WarmupFailureNotFatal ==
    (lastGet.caller # 0 /\ ~lastGet.warm_ok) =>
        /\ ~lastGet.raised
        /\ ret[lastGet.caller] = lastGet.got
        /\ lastGet.got = client
        /\ cycleCreates >= 1 =>
              (lastGet.got = lastGet.made /\ lastGet.made # NoHandle /\ is_active)
        /\ ping_task /\ kpc = "sleep"
        /\ idle_ping_count = 0
        /\ lock = 0 /\ gpc[lastGet.caller] = "idle"

\* the warm-up failed and the caller got the open client it had constructed
C21_Witness ==
    /\ lastGet.caller # 0 /\ ~lastGet.warm_ok
    /\ ret[lastGet.caller] = lastGet.made /\ lastGet.made # NoHandle
    /\ retActive[lastGet.caller] /\ is_active
    /\ kpc = "sleep" /\ idle_ping_count = 0

\* C22: a keep-alive task one of whose pings failed sends no further ping: it is
\* closing the stored connection or has ended, with no request pending; is_active
\* stays false until a client is constructed again, and the client constructed
\* then, by a get_client() call holding the lock, is a new, open one.
C22_PingFailureTearsDown ==
    /\ kfailed => /\ kpc \in {"aclose", "done", "cancelled"}
                  /\ kclient = NoHandle
                  /\ ~kexpired
    /\ (kfailed /\ cycleCreates = 0) => ~is_active
    /\ (kfailed /\ cycleCreates >= 1) =>
          /\ is_active /\ client = created /\ client \notin closed
          /\ \E p \in Callers : gpc[p] = "warmup" /\ lock = p

\* after a failed ping that followed a successful one the task has ended, and a
\* later get_client() has constructed the next client
C22_Witness ==
    /\ kfailed /\ kpings >= 1 /\ kpc = "done"
    /\ \E p \in Callers : clean[p] /\ gpc[p] = "warmup"
    /\ client = 2 /\ is_active /\ 1 \in closed

\* C23: a step in which the transport open of a connect() fails (the caller's
\* connect() ends without a new socket, or the connect() of a reconnect does) raises
\* MexcWebSocketError to the caller, emits nothing, creates no ping or receive task
\* and changes neither the socket nor a flag: connected is false after it whenever it
\* was false before it.
C23_FailedConnectChangesNothing ==
    [][/\ (upc = "connecting" /\ upc' = "idle" /\ opened' = opened)
             => /\ lastCall'.op = "connect" /\ lastCall'.raised = "MexcWebSocketError"
                /\ lastEmit' = << >>
                /\ UNCHANGED <<ws, Flags, ws_ping_task, recv_task, ppc, rpc, sockState>>
                /\ ~is_connected => ~is_connected'
       /\ \A t \in Sockets :
             (rpc[t] = "reconnect" /\ rpc'[t] \in {"resleep", "done", "crashed"}
                  /\ opened' = opened)
             => /\ lastEmit' = << >>
                /\ UNCHANGED <<ws, Flags, ws_ping_task, recv_task, ppc, sockState>>
                /\ \A u \in Sockets \ {t} : rpc'[u] = rpc[u]]_vars

\* the first connect() of a client failed
C23_Witness ==
    /\ lastCall.op = "connect" /\ lastCall.raised = "MexcWebSocketError"
    /\ ~is_connected /\ ws = NoSocket /\ opened = 0
    /\ ws_ping_task = 0 /\ recv_task = 0
    /\ \A t \in Sockets : ppc[t] = "none" /\ rpc[t] = "none"

\* C24: a frame that cannot be parsed causes no emission; a frame whose processing
\* raises another error causes exactly one `error` emission; after either the
\* receive task goes on with its loop and connected is as it was.
C24_BadFrameHandling ==
    /\ lastFrame.kind \in {"malformed", "binary", "nested"} => lastEmit = << >>
    /\ lastFrame.kind = "array" =>
          (Len(lastEmit) = 1 /\ lastEmit[1][1] = "error")
    /\ lastFrame.kind \in BadFrames =>
          /\ is_connected = lastFrame.pre
          /\ rpc[lastFrame.task] \in {"recv", "spin"} \/ ~is_connected \/ ws = NoSocket

\* C25: a step of a ping loop changes none of connected, logged_in, should_reconnect
\* and the socket; after a ping whose send raised the loop sleeps for the next
\* interval; and connected goes from true to false only in a step in which a receive
\* task emits `disconnected` or in which disconnect() returns.
C25_PingLoopChangesNothing ==
    [][/\ (\E t \in Sockets : ping_wake(t)) => UNCHANGED <<Flags, ws>>
       /\ lastCall'.op = "ping" =>
             \E t \in Sockets : ppc[t] = "sleep" /\ ppc'[t] = "sleep" /\ ping_wake(t)
       /\ (is_connected /\ ~is_connected') =>
             \/ \E t \in Sockets : discEmits'[t] = discEmits[t] + 1
             \/ lastCall'.op = "disconnect"]_vars

\* a ping was sent on a socket whose transport had closed before the receive task
\* handled the closure; the ping loop sleeps again
C25_Witness ==
    /\ lastCall.op = "ping" /\ lastCall.raised = "ConnectionClosed"
    /\ is_connected /\ lastCall.pre = Flags
    /\ ws # NoSocket /\ sockState[ws] = "peerclosed"
    /\ ppc[ws_ping_task] = "sleep"

\* C26: every request of the REST layer is made on a connection obtained from the
\* session manager's get_client(), and a request that succeeded has called
\* notify_activity(), so that the idle counter is zero when it returns.
C26_RequestsUseSessionManager ==
    lastRequest.done =>
        /\ lastRequest.conn = "manager"
        /\ lastRequest.ok => (lastRequest.notified /\ idle_ping_count = 0)

\* the decimal numerals of the clock readings, written out
RefDecimal ==
    <<"0", "1", "2", "3", "4", "5", "6", "7", "8", "9", "10", "11", "12", "13", "14",
      "15", "16">>

\* C27: the message of a login() that passed the connection guard carries the
\* configured api_key, the decimal numeral of the clock reading as reqTime, and as
\* signature the HMAC-SHA256 hex digest keyed by secret_key over api_key followed by
\* that numeral; two logins in a row with the same reqTime carry the same signature.
C27_LoginSignature ==
    [][(lastCall'.op = "login" /\ lastCall'.raised # "MexcWebSocketError") =>
          /\ lastCall'.msg.method = "login"
          /\ lastCall'.msg.apiKey = api_key
          /\ lastCall'.msg.reqTime = RefDecimal[lastCall'.now + 1]
          /\ lastCall'.msg.signature =
                <<"hmac-sha256-hex", secret_key, api_key \o RefDecimal[lastCall'.now + 1]>>
          /\ (lastCall.op = "login" /\ lastCall.raised # "MexcWebSocketError"
                 /\ lastCall.msg.reqTime = lastCall'.msg.reqTime)
                => lastCall.msg.signature = lastCall'.msg.signature]_vars

\* a login sent on an open socket at clock reading 12 with the key "k1"
C27_Witness ==
    /\ lastCall.op = "login" /\ lastCall.raised = "none"
    /\ lastCall.sent # NoSocket /\ lastCall.sent = ws
    /\ api_key = "k1" /\ secret_key = "s2"
    /\ lastCall.msg.reqTime = "12"
    /\ lastCall.msg.signature = <<"hmac-sha256-hex", "s2", "k112">>

\* a channel name without its first n characters
WithoutPrefix(c, n) == SubSeq(c, n + 1, Len(c))

\* C28: a dispatched envelope causes exactly one emission, chosen by the channel:
\* pong, rs.login, rs.personal.filter, the prefix rs.sub., the prefix rs.unsub.,
\* rs.error, and otherwise a data update; `subscribed` and `unsubscribed` carry the
\* channel name without its leading prefix, and the data; logged_in changes only for
\* rs.login.
C28_DispatchRules ==
    lastDispatch # NoDispatch =>
        /\ Len(lastEmit) = 1
        /\ lastDispatch.msg[1] = "pong" => lastEmit[1][1] = "pong"
        /\ lastDispatch.msg[1] = "rs.login" => lastEmit[1][1] \in {"login", "login_failed"}
        /\ lastDispatch.msg[1] = "rs.personal.filter"
              => lastEmit[1][1] \in {"filter_set", "filter_failed"}
        /\ lastDispatch.msg[1] \in SubChannels
              => lastEmit[1] = <<"subscribed", "typed",
                                 <<WithoutPrefix(lastDispatch.msg[1], Len("rs.sub.")),
                                   lastDispatch.msg[2]>> >>
        /\ lastDispatch.msg[1] \in UnsubChannels
              => lastEmit[1] = <<"unsubscribed", "typed",
                                 <<WithoutPrefix(lastDispatch.msg[1], Len("rs.unsub.")),
                                   lastDispatch.msg[2]>> >>
        /\ lastDispatch.msg[1] = "rs.error" => lastEmit[1][1] = "error"
        /\ lastDispatch.msg[1] \notin ControlChannels \cup SubChannels \cup UnsubChannels
              => lastEmit = handle_data_update(lastDispatch.msg)
        /\ lastDispatch.msg[1] # "rs.login" => lastDispatch.post = lastDispatch.pre

\* C29: an emission of `pong`, `login`, `login_failed`, `filter_set` or `filter_failed`
\* carries the data of the envelope that caused it, and the only event that carries
\* a whole envelope is `message`.
C29_ControlEventsCarryData ==
    (lastDispatch # NoDispatch /\ lastEmit # << >>) =>
        /\ lastEmit[1][1] \in {"pong", "login", "login_failed", "filter_set", "filter_failed"}
              => (lastEmit[1][2] = "data" /\ lastEmit[1][3] = lastDispatch.msg[2])
        /\ lastEmit[1][2] = "envelope" => lastEmit[1][1] = "message"

\* C30: a receive task that handles the closure of its transport while
\* should_reconnect is false emits `disconnected`, once, and ends; a receive task that
\* has ended stays ended and makes no connect() attempt; no task starts a reconnect
\* sleep while should_reconnect is false; and a client configured with auto_reconnect
\* off never sleeps for a reconnect nor attempts one.
C30_NoReconnectWhenDisabled ==
    [][\A t \in Sockets :
          /\ (discEmits'[t] # discEmits[t] /\ ~should_reconnect)
                => /\ rpc'[t] = "done"
                   /\ discEmits'[t] = 1
                   /\ Len(lastEmit') = 1 /\ lastEmit'[1][1] = "disconnected"
                   /\ attempts'[t] = 0
          /\ rpc[t] = "done"
                => (rpc'[t] = "done" /\ attempts'[t] = attempts[t]
                      /\ discEmits'[t] = discEmits[t])
          /\ (rpc[t] # "resleep" /\ rpc'[t] = "resleep") => should_reconnect
          /\ ~auto_reconnect => (attempts'[t] = 0 /\ rpc'[t] \notin {"resleep", "reconnect"})]_vars

\* on a client configured without auto-reconnect the transport closed and the
\* receive task has emitted `disconnected` and ended
C30_Witness ==
    /\ ~auto_reconnect /\ ~should_reconnect
    /\ sockState[1] = "peerclosed"
    /\ discEmits[1] = 1 /\ rpc[1] = "done" /\ attempts[1] = 0
    /\ lastEmit = << <<"disconnected", "code", "1006">> >>
    /\ ~is_connected /\ upc = "idle"

\* C31: at most one ping loop and at most one receive loop are alive, and once the
\* reconnect of a connection has succeeded the ping loop of that connection is no
\* longer alive.
C31_OneLoopOfEachKind ==
    /\ Cardinality({t \in Sockets : PLive(t)}) <= 1
    /\ Cardinality({t \in Sockets : RLive(t)}) <= 1
    /\ \A t \in Sockets : rok[t] => ~PLive(t)

\* C32: a disconnect() awaited by a callback inside the receive task, with no other
\* disconnect() in flight, never ends the task early and is never stuck; the socket
\* it finds stored is closed by its close step; and when it returns it has raised
\* nothing, connected and logged_in are false, no socket is stored, auto-reconnect is
\* off and the receive task that ran it ends.
C32_DisconnectInsideCallback ==
    [][\A t \in Sockets :
          /\ rpc[t] = "cbdisc" => dpc \in {"await_ping", "await_recv", "closing"}
          /\ rpc[t] = "cbdisc" => rpc'[t] \in {"cbdisc", "done"}
          /\ (rpc[t] = "cbdisc" /\ rpc'[t] = "done") => lastCall'.op = "disconnect"
          /\ (rpc[t] \in {"recv", "cbdisc"} /\ rpc'[t] = "cbdisc")
                => (~should_reconnect' /\ lastCall'.op # "disconnect")
          /\ (rpc[t] \in {"recv", "cbdisc"} /\ rpc'[t] = "cbdisc"
                /\ dpc # "closing" /\ dpc' = "closing")
                => (ws # NoSocket /\ sockState'[ws] \in {"closed", "peerclosed"})
          /\ (lastCall'.op = "disconnect" /\ lastRun'.task = t)
                => /\ rpc[t] \in {"recv", "cbdisc"}
                   /\ lastCall'.raised = "none"
                   /\ ~is_connected' /\ ~is_logged_in' /\ ~should_reconnect'
                   /\ ws' = NoSocket
                   /\ rpc'[t] = "done"
                   /\ lastRun'.invoked = lastRun'.listed
          /\ lastCall'.op = "disconnect" => lastRun'.task # 0]_vars

\* the callback's disconnect() has returned in the stored receive task of a connected,
\* logged-in client: it cancelled the ping loop, awaited itself and closed the socket
C32_Witness ==
    /\ lastCall.op = "disconnect" /\ lastCall.raised = "none"
    /\ lastCall.pre[1] /\ lastCall.pre[2]
    /\ lastRun.task = 1 /\ recv_task = 1 /\ drecv = 1
    /\ rpc[1] = "done" /\ ppc[1] = "cancelled"
    /\ sockState[1] = "closed" /\ closeCode[1] = NormalClosure
    /\ ws = NoSocket /\ ~is_connected /\ ~is_logged_in

\* C33: idle_ping_count stays within 0..max_idle_pings; it changes only by a
\* successful keep-alive ping, which adds one, by notify_activity() and by
\* _start_keepalive() on a new connection, which set it to zero; a failed ping leaves it
\* as it was; and while notify_activity() has not been called since the keep-alive
\* task started it equals the successful pings of that task.
C33_IdleCountCountsPings ==
    [][/\ idle_ping_count \in 0..max_idle_pings
       /\ (kpc # "none" /\ ~knotified) => idle_ping_count = kpings
       /\ (kpc = "ping" /\ kpc' = "sleep" /\ lastGet'.caller = 0)
             => idle_ping_count' = idle_ping_count + 1
       /\ (kpc = "ping" /\ kfailed' /\ lastGet'.caller = 0)
             => idle_ping_count' = idle_ping_count
       /\ idle_ping_count' # idle_ping_count
             => \/ /\ idle_ping_count' = idle_ping_count + 1
                   /\ kpc = "ping" /\ kpc' = "sleep" /\ ~kfailed'
                \/ /\ idle_ping_count' = 0
                   /\ \/ lastGet'.caller # 0
                      \/ kfresh' /\ knotified' /\ kpc' = kpc]_vars

\* notify_activity() reset the count and one ping has succeeded since: the second
\* successful ping of the task
C33_Witness ==
    /\ max_idle_pings = 2
    /\ idle_ping_count = 1 /\ kpings = 2
    /\ knotified /\ ~kfresh /\ ~kfailed
    /\ kpc = "sleep" /\ is_active

\* C34: a keep-alive task with no notify_activity() and no failed ping sends a ping
\* only while fewer than max_idle_pings have succeeded, so at most max_idle_pings in
\* all and none when max_idle_pings is 0; it takes the idle-expiry branch only after
\* exactly max_idle_pings pings; and the wake-up that follows the last of them sends
\* no ping but closes the client and ends the task.
C34_ExactlyMaxIdlePings ==
    [][/\ (~knotified /\ ~kfailed /\ kpc = "ping") => kpings < max_idle_pings
       /\ (~knotified /\ ~kfailed) => kpings <= max_idle_pings
       /\ (~knotified /\ kexpired) => (kpings = max_idle_pings /\ ~kfailed)
       /\ max_idle_pings = 0 => (kpings = 0 /\ kpc # "ping")
       /\ (~knotified /\ ~kfailed /\ kpings = max_idle_pings
             /\ kpc = "sleep" /\ kpc' \notin {"sleep", "cancelled"})
             => /\ kexpired'
                /\ kpc' \in {"aclose", "done"}
                /\ kpings' = kpings
                /\ client # NoHandle => client \in closed'
                /\ kpc' = "done" => client' = NoHandle]_vars

\* the only connection of the run expired after exactly two pings
C34_Witness ==
    /\ max_idle_pings = 2 /\ kpings = 2 /\ idle_ping_count = 2
    /\ kexpired /\ ~knotified /\ ~kfailed
    /\ created = 1 /\ closed = {1}
    /\ kpc = "done" /\ client = NoHandle

\* C35: should_reconnect never goes from false to true and changes only in the step
\* that calls disconnect(); a connect() that succeeds leaves it as it was; and while it
\* is false no receive task enters a reconnect sleep, so the closure of a connection
\* opened after a disconnect() ends its receive task with no attempt made.
C35_ReconnectStaysDisabled ==
    [][/\ ~should_reconnect => ~should_reconnect'
       /\ should_reconnect' # should_reconnect => (dpc = "idle" /\ upc' = upc /\ opened' = opened)
       /\ opened' # opened => should_reconnect' = should_reconnect
       /\ \A t \in Sockets :
             /\ (~should_reconnect /\ rpc[t] \notin {"resleep", "reconnect"})
                   => rpc'[t] \notin {"resleep", "reconnect"}
             /\ (~should_reconnect /\ rpc[t] = "none")
                   => (attempts[t] = 0 /\ attempts'[t] = 0 /\ slept'[t] = 0)
             /\ (~should_reconnect /\ rpc[t] = "recv" /\ attempts[t] = 0
                   /\ discEmits'[t] # discEmits[t])
                   => (rpc'[t] = "done" /\ attempts'[t] = 0)]_vars

\* with auto_reconnect configured, disconnect() closed the first socket, connect() was
\* called again, and the closure of the second socket ended its receive task
C35_Witness ==
    /\ auto_reconnect /\ ~should_reconnect
    /\ opened = 2 /\ closeCode[1] = NormalClosure /\ sockState[1] = "closed"
    /\ sockState[2] = "peerclosed"
    /\ discEmits[2] = 1 /\ rpc[2] = "done" /\ attempts[2] = 0 /\ slept[2] = 0
    /\ discEmits[1] = 0 /\ rpc[1] = "cancelled"
    /\ lastEmit = << <<"disconnected", "code", AbnormalClosure>> >>
    /\ dpc = "idle" /\ ~discReturned

\* the connections the caller opened with connect(): every socket but those a
\* reconnect opened
UserConnects == opened - Cardinality({u \in Sockets : rok[u]})

\* C36: the step in which a receive task's reconnect succeeds stores the new open
\* socket, sets connected, emits `connected`, runs no operation that sends and leaves
\* logged_in as it was, which is false on a client whose caller connected once; and
\* logged_in goes from false to true only in the dispatch of a successful rs.login
\* reply, received on the stored socket when no other connection is open.
C36_ReconnectDoesNotLogIn ==
    [][/\ \A t \in Sockets :
             (rpc[t] = "reconnect" /\ ~rok[t] /\ rok'[t])
                => /\ is_connected' /\ ws' = opened' /\ sockState'[ws'] = "open"
                   /\ rpc'[ws'] = "recv" /\ rpc'[t] = "done"
                   /\ lastEmit' = << <<"connected", "none", "">> >>
                   /\ lastCall' = NoCall /\ lastDispatch' = NoDispatch
                   /\ is_logged_in' = is_logged_in
                   /\ UserConnects <= 1 => (~is_logged_in' /\ loginSock' = NoSocket)
       /\ (~is_logged_in /\ is_logged_in')
             => /\ lastDispatch'.msg[1] = "rs.login"
                /\ IsSuccess(lastDispatch'.msg[2])
                /\ loginSock' # NoSocket /\ sockState[loginSock'] = "open"
                /\ (\A c \in Sockets \ {ws} : sockState[c] # "open") => loginSock' = ws]_vars

\* the only receive loop of the client has just reconnected
C36_Witness ==
    /\ rok[1] /\ rpc[1] = "done" /\ attempts[1] >= 1
    /\ opened = 2 /\ ws = 2 /\ rpc[2] = "recv" /\ sockState[2] = "open"
    /\ lastEmit = << <<"connected", "none", "">> >>
    /\ upc = "idle" /\ lastCall = NoCall
    /\ is_connected /\ ~is_logged_in /\ should_reconnect

\* C37 as stated: a public subscribe or unsubscribe operation called while the client
\* has no socket or is not connected sends nothing, raises nothing and changes none of
\* connected, logged_in, should_reconnect.
C37_PublicCallWhileDisconnected ==
    [][(lastCall'.op \in PublicOps /\ (ws = NoSocket \/ ~is_connected))
          => /\ lastCall'.sent = NoSocket
             /\ lastCall'.raised = "none"
             /\ Flags' = Flags /\ lastCall'.pre = Flags /\ ws' = ws]_vars

\* C37: a public subscribe or unsubscribe operation called while the client has no
\* socket or is not connected sends nothing and changes none of connected, logged_in,
\* should_reconnect; it raises ValueError when it is subscribe_to_kline with an
\* interval outside KLINE_INTERVALS, and nothing otherwise.
C37_PublicCallWhileDisconnected_amended ==
    [][(lastCall'.op \in PublicOps /\ (ws = NoSocket \/ ~is_connected))
          => /\ lastCall'.sent = NoSocket
             /\ lastCall'.raised =
                   IF lastCall'.op = "subscribe_to_kline"
                      /\ lastCall'.interval \notin KLINE_INTERVALS
                   THEN "ValueError" ELSE "none"
             /\ Flags' = Flags /\ lastCall'.pre = Flags /\ ws' = ws]_vars

\* an unsubscribe called during disconnect(), the socket stored and still open
C37_Witness ==
    /\ lastCall.op = "unsubscribe_from_ticker"
    /\ lastCall.raised = "none" /\ lastCall.sent = NoSocket
    /\ ws # NoSocket /\ sockState[ws] = "open" /\ ~is_connected
    /\ lastCall.pre = Flags

\* the stream names of the public operations that come in pairs
PublicStreams ==
    {"tickers", "ticker", "deal", "depth", "depth.full", "kline", "funding.rate",
     "index.price", "fair.price"}

\* the subscribe operation that goes with an unsubscribe operation
SubscribeOf(op) ==
    CASE op = "unsubscribe_from_all_tickers" -> "subscribe_to_all_tickers"
      [] op = "unsubscribe_from_ticker" -> "subscribe_to_ticker"
      [] op = "unsubscribe_from_deals" -> "subscribe_to_deals"
      [] op = "unsubscribe_from_depth" -> "subscribe_to_depth"
      [] op = "unsubscribe_from_full_depth" -> "subscribe_to_full_depth"
      [] op = "unsubscribe_from_kline" -> "subscribe_to_kline"
      [] op = "unsubscribe_from_funding_rate" -> "subscribe_to_funding_rate"
      [] op = "unsubscribe_from_index_price" -> "subscribe_to_index_price"
      [] op = "unsubscribe_from_fair_price" -> "subscribe_to_fair_price"

UnsubscribeOps ==
    {"unsubscribe_from_all_tickers", "unsubscribe_from_ticker", "unsubscribe_from_deals",
     "unsubscribe_from_depth", "unsubscribe_from_full_depth", "unsubscribe_from_kline",
     "unsubscribe_from_funding_rate", "unsubscribe_from_index_price",
     "unsubscribe_from_fair_price"}

\* C38: the method of the message of every public unsubscribe operation is "unsub."
\* followed by the stream name that its subscribe operation sends after "sub.".
C38_UnsubscribeNamesTheStream ==
    lastCall.op \in UnsubscribeOps =>
        \E st \in PublicStreams :
            /\ PublicMethod(SubscribeOf(lastCall.op)) = "sub." \o st
            /\ lastCall.msg.method = "unsub." \o st

RECURSIVE Without(_, _)
\* list with every entry equal to c left out, the other entries in their order
Without(list, c) ==
    IF list = << >> THEN << >>
    ELSE IF Head(list) = c THEN Without(Tail(list), c)
    ELSE <<Head(list)>> \o Without(Tail(list), c)

\* C39: remove_callback(event, cb) raises nothing, leaves the list of every other
\* event and the set of events as they were, and leaves under its event exactly the
\* entries other than cb, in their order; when the event has no list or cb is not in
\* it, the registry is unchanged.
C39_RemoveCallback ==
    [][lastCall'.op = "remove_callback" =>
          LET e == lastCall'.event
              c == lastCall'.cb
          IN /\ lastCall'.raised = "none"
             /\ DOMAIN callbacks' = DOMAIN callbacks
             /\ \A x \in DOMAIN callbacks \ {e} : callbacks'[x] = callbacks[x]
             /\ e \in DOMAIN callbacks =>
                   /\ callbacks'[e] = Without(callbacks[e], c)
                   /\ \A i \in 1..Len(callbacks'[e]) : callbacks'[e][i] # c
                   /\ lastCall'.removed =
                         Cardinality({i \in 1..Len(callbacks[e]) : callbacks[e][i] = c})
             /\ (e \notin DOMAIN callbacks
                   \/ \A i \in 1..Len(callbacks[e]) : callbacks[e][i] # c)
                   => (callbacks' = callbacks /\ lastCall'.removed = 0)
             /\ Flags' = Flags /\ cbKind' = cbKind /\ registered' = registered]_vars

\* a callback registered twice under `ticker` was removed; two others stay in order
C39_Witness ==
    /\ lastCall.op = "remove_callback" /\ lastCall.raised = "none"
    /\ lastCall.event = "ticker" /\ lastCall.cb = 1 /\ lastCall.removed = 2
    /\ callbacks["ticker"] = <<3, 2>>
    /\ callbacks["deal"] = <<1>>

\* C19: a step in which close() returns leaves the client absent, is_active false and
\* no keep-alive task alive or stored; close() called in such a state returns at
\* once and changes none of the manager's fields, handles or tasks.
C19_CloseFinalAndIdempotent ==
    [][/\ (close_done \/ (close_call /\ cpc' = "idle"))
             => (client' = NoHandle /\ ~is_active' /\ ~KLive' /\ ping_task' = FALSE)
       /\ (close_call /\ client = NoHandle /\ ~KLive /\ ping_task = FALSE)
             => (cpc' = "idle" /\ UNCHANGED <<client, ping_task, idle_ping_count, lock,
                                              created, closed, gpc, kpc>>)]_vars

\* a step of a disconnect() call
DisconnectStep ==
    disconnect_call \/ disconnect_after_ping \/ disconnect_after_recv \/ disconnect_closed

\* C20: disconnect() never raises; whenever it returns, connected and logged_in are
\* false, the socket is absent and should_reconnect is false; and from a state in
\* which the four have these values (the state a first call left, or a client that
\* never connected and has no auto-reconnect) no step of a disconnect() call changes
\* any of them, the call returning at once when no stored task is alive.
C20_DisconnectIdempotent ==
    [][DisconnectStep =>
          /\ dpc' = "idle" => /\ lastCall'.op = "disconnect" /\ lastCall'.raised = "none"
                              /\ ~is_connected' /\ ~is_logged_in'
                              /\ ws' = NoSocket /\ ~should_reconnect'
          /\ (~is_connected /\ ~is_logged_in /\ ws = NoSocket /\ ~should_reconnect)
                => /\ UNCHANGED <<is_connected, is_logged_in, ws, should_reconnect>>
                   /\ (dpc = "idle" /\ ~PLive(ws_ping_task) /\ ~RLive(recv_task))
                         => dpc' = "idle"]_vars

\* a disconnect() repeated after one that closed a socket has returned
C20_Witness ==
    /\ lastCall.op = "disconnect" /\ lastCall.again
    /\ lastCall.pre = <<FALSE, FALSE, FALSE>>
    /\ auto_reconnect /\ sockState[1] = "closed"
    /\ Flags = <<FALSE, FALSE, FALSE>> /\ ws = NoSocket

\* the replies C10 counts as successful: the literal "success", or an object whose
\* code is the number 0
ClaimedSuccess(data) ==
    \/ data = <<"str", "success", "">>
    \/ data[1] = "dict" /\ data[2] \in {"int", "float"} /\ data[3] \in {"0", "0.0"}

\* C10: an rs.login envelope whose data is "success" or an object with code 0 sets
\* logged_in and emits exactly one `login`; every other data value clears logged_in
\* and emits exactly one `login_failed`.
C10_LoginReply ==
    lastDispatch.msg[1] = "rs.login" =>
        IF ClaimedSuccess(lastDispatch.msg[2])
        THEN /\ is_logged_in
             /\ Len(lastEmit) = 1 /\ lastEmit[1][1] = "login"
        ELSE /\ ~is_logged_in
             /\ Len(lastEmit) = 1 /\ lastEmit[1][1] = "login_failed"

====
